---- MODULE Spec2Model ----
(***************************************************************************)
(* Model of the core of zchee/abm: PageIterator and resolveNextURL        *)
(* (pagination.go), decodeOrgDevices and Client.FetchOrgDevicePartNumbers  *)
(* (abm.go), NewAssertion, parseECDSAPrivateKeyFromPEM, NewTokenSource and *)
(* clientCredentialsTokenSource.Token (auth.go).                           *)
(*                                                                         *)
(* Under Spec one behaviour is a sequence value returned by PageIterator  *)
(* being ranged over by a caller: an arbitrary `range` loop that may      *)
(* break after any page, or the loop of FetchOrgDevicePartNumbers.  Under *)
(* AuthSpec one behaviour is either an authentication session             *)
(* (NewAssertion, NewTokenSource, then concurrent Token() calls) or one   *)
(* call of FetchOrgDevicePartNumbers.  The HTTP servers, the transport,   *)
(* the file system, the clock and the context are the environment.        *)
(***************************************************************************)
EXTENDS Integers, Sequences, FiniteSets, TLC

VARIABLES
    ctxErr,       \* ctx.Err(): "nil", or the cancellation error of the context
    server,       \* which server answers: "any", "few" or "loop" (every page links to itself)
    caller,       \* who ranges over the sequence: "range" or "FetchOrgDevicePartNumbers"
    baseURL,      \* the baseURL argument captured by the closure (a URL string)
    iterNo,       \* how many times the sequence value has been ranged over
    pc,           \* position of the iterator / caller
    nextURL,      \* local nextURL of the running iteration (a URL string)
    page,         \* local loop counter of the running iteration
    reqURL,       \* req.URL of the last request built
    cur,          \* (data, nextLink) returned by the decoder for the last page
    fetches,      \* client.Do calls of this iteration
    decodes,      \* decoder invocations of this iteration
    served,       \* what the transport answered to each client.Do of this iteration
    out,          \* elements handed to yield in this iteration
    stopped,      \* the consumer returned false from the yield of a page
    partNumbers,  \* accumulator of FetchOrgDevicePartNumbers
    ret,          \* return value of FetchOrgDevicePartNumbers
    stage,        \* position of the authentication session ("off": there is none)
    tick,         \* the clock: time.Now() is Instant(tick)
    keyReads,     \* os.ReadFile calls made by NewAssertion
    uuids,        \* uuid.NewString calls made so far
    asCall,       \* the NewAssertion call: its arguments and its result
    tsCall,       \* the NewTokenSource call: its arguments and its result
    cached,       \* reuseTokenSource.t: the token the reuse wrapper holds
    holder,       \* reuseTokenSource.mu: the caller holding it, or NoCaller
    calls,        \* the Token() call of each caller: position and result
    tokenCalls,   \* Token() calls made so far on the token source
    inflight,     \* token exchange requests sent and not yet answered
    posts,        \* token exchange requests sent so far
    client,       \* the *Client: what NewClientWithBaseURL was given and returned
    op,           \* the call of a typed operation of the client
    wire          \* requests the client's oauth2.Transport handed to its base transport

authVars == <<stage, tick, keyReads, uuids, asCall, tsCall, cached, holder, calls,
              tokenCalls, inflight, posts>>

clientVars == <<client, op, wire>>

pageVars == <<server, caller, baseURL, iterNo, pc, nextURL, page, reqURL, cur,
              fetches, decodes, served, out, stopped, partNumbers, ret>>

vars == <<ctxErr, server, caller, baseURL, iterNo, pc, nextURL, page, reqURL, cur,
          fetches, decodes, served, out, stopped, partNumbers, ret, stage, tick,
          keyReads, uuids, asCall, tsCall, cached, holder, calls, tokenCalls,
          inflight, posts, client, op, wire>>

----------------------------------------------------------------------------
(* Bounds of the model *)

\* The server answers freely for the first MaxRich fetches of an iteration;
\* later it keeps paginating only as the self-linking server (LoopResponse).
MaxRich == 2

\* How many times one sequence value is ranged over.
MaxIter == 2

----------------------------------------------------------------------------
(* Program constants *)

maxPages == 1000

StatusOK == 200

StatusMultipleChoices == 300

----------------------------------------------------------------------------
(* URLs.  A URL string is modelled by the components url.Parse splits it   *)
(* into, plus wf = FALSE for a string url.Parse rejects and canon = FALSE *)
(* for a spelling String() does not give back (an upper-case scheme, as   *)
(* in "HTTPS://h/p").  A path is the sequence of its "/"-separated        *)
(* pieces: "/v1/x" is <<"", "v1", "x">>, "x" is <<"x">> and the empty     *)
(* path is <<>>.                                                          *)

URLStr(wf, scheme, host, path, query) ==
    [wf |-> wf, canon |-> wf, scheme |-> scheme, host |-> host, path |-> path,
     query |-> query]

\* the same URL spelled with an upper-case scheme
Spelled(s) == [s EXCEPT !.canon = FALSE]

EmptyStr == URLStr(TRUE, "", "", <<>>, "")

BadStr == URLStr(FALSE, "", "", <<>>, "")

\* url.Parse: the error flag and the parsed URL.
urlParse(s) ==
    [err |-> ~s.wf,
     url |-> [scheme |-> s.scheme, host |-> s.host, path |-> s.path, query |-> s.query]]

\* the zero url.URL
NoURL == urlParse(EmptyStr).url

\* (*url.URL).String
urlString(u) == URLStr(TRUE, u.scheme, u.host, u.path, u.query)

\* (*url.URL).IsAbs
IsAbs(u) == u.scheme # ""

\* net/url resolvePath without dot segments: an empty reference keeps the
\* base path, a relative one replaces the base's last piece, an absolute one
\* replaces the whole path.
resolvePath(base, ref) ==
    IF ref = <<>> THEN base
    ELSE IF ref[1] # ""
         THEN (IF base = <<>> THEN <<"">> ELSE SubSeq(base, 1, Len(base) - 1)) \o ref
         ELSE ref

\* (*url.URL).ResolveReference for a reference without scheme.
ResolveReference(base, ref) ==
    IF ref.host # ""
    THEN [scheme |-> base.scheme, host |-> ref.host, path |-> ref.path, query |-> ref.query]
    ELSE [scheme |-> base.scheme,
          host   |-> base.host,
          path   |-> resolvePath(base.path, ref.path),
          query  |-> IF ref.path = <<>> /\ ref.query = "" THEN base.query ELSE ref.query]

\* Mutant: an empty next link is resolved like any other reference.
resolveNextURL_NoEmptyCase(base, next) ==
    IF urlParse(next).err THEN [err |-> TRUE, url |-> EmptyStr]
    ELSE IF IsAbs(urlParse(next).url)
         THEN [err |-> FALSE, url |-> urlString(urlParse(next).url)]
         ELSE [err |-> FALSE, url |-> urlString(ResolveReference(base, urlParse(next).url))]

\* resolveNextURL(baseURL *url.URL, next string) (string, error)
resolveNextURL(base, next) ==
    IF next = EmptyStr THEN [err |-> FALSE, url |-> EmptyStr]
    ELSE IF urlParse(next).err THEN [err |-> TRUE, url |-> EmptyStr]
    ELSE IF IsAbs(urlParse(next).url)
         THEN [err |-> FALSE, url |-> urlString(urlParse(next).url)]
         ELSE [err |-> FALSE, url |-> urlString(ResolveReference(base, urlParse(next).url))]

----------------------------------------------------------------------------
(* Response bodies.  A body is a JSON orgDevices document (json = TRUE)  *)
(* with its data and links.next, or text that is no JSON; pad says that  *)
(* white space surrounds it.                                              *)

Body(pad, json, data, next) == [pad |-> pad, json |-> json, data |-> data, next |-> next]

NoBody == Body(FALSE, FALSE, <<>>, EmptyStr)

\* strings.TrimSpace(string(payload))
TrimSpace(b) == [b EXCEPT !.pad = FALSE]

\* One element of OrgDevicesResponse.Data: Attributes may be nil.
Device(hasAttributes, partNumber) ==
    [hasAttributes |-> hasAttributes, partNumber |-> partNumber]

----------------------------------------------------------------------------
(* Errors *)

\* the nil error
NoErr == [msg |-> "nil"]

\* ctx.Err() as an error value
CtxError(e) == [msg |-> e, cause |-> "", status |-> 0, body |-> NoBody]

\* fmt.Errorf("<msg>: %w", cause)
Errorf(msg, cause) == [msg |-> msg, cause |-> cause, status |-> 0, body |-> NoBody]

\* fmt.Errorf("request failed: status=%s body=%s", resp.Status, TrimSpace(payload))
StatusError(status, body) ==
    [msg |-> "request failed", cause |-> "", status |-> status, body |-> TrimSpace(body)]

\* fmt.Errorf("pagination exceeded %d pages", maxPages)
PageLimitError ==
    [msg |-> "pagination exceeded", cause |-> "", status |-> maxPages, body |-> NoBody]

----------------------------------------------------------------------------
(* decodeOrgDevices(payload) ([]string, string, error) *)

partNumberOf(device) == IF device.hasAttributes THEN device.partNumber ELSE ""

decodeOrgDevices(payload) ==
    IF ~payload.json
    THEN [data |-> <<>>, next |-> EmptyStr,
          err |-> Errorf("decode org devices response", "json")]
    ELSE [data |-> [i \in 1..Len(payload.data) |-> partNumberOf(payload.data[i])],
          next |-> payload.next,
          err  |-> NoErr]

----------------------------------------------------------------------------
(* The environment: start URLs, next links, and what the transport can    *)
(* answer to one client.Do.                                               *)

DefaultURL == URLStr(TRUE, "https", "api.example", <<"", "v1", "orgDevices">>, "")

StartURLs == {DefaultURL, EmptyStr, BadStr}

\* "/v1/orgDevices": resolves to DefaultURL itself
SelfLink == URLStr(TRUE, "", "", <<"", "v1", "orgDevices">>, "")

AbsPathLink == URLStr(TRUE, "", "", <<"", "v1", "orgDevices">>, "page=2")  \* "/v1/orgDevices?page=2"

\* "HTTPS://alt.example/v2/list?c=1"
AbsoluteLink == Spelled(URLStr(TRUE, "https", "alt.example", <<"", "v2", "list">>, "c=1"))

NetPathLink == URLStr(TRUE, "", "alt.example", <<"", "v3">>, "")          \* "//alt.example/v3"

RelPathLink == URLStr(TRUE, "", "", <<"more">>, "")                        \* "more"

QueryLink == URLStr(TRUE, "", "", <<>>, "page=3")                          \* "?page=3"

\* The orgDevices documents the server has: one per next link, with
\* differing data, plus a second last page without devices.
PageBodies ==
    { Body(FALSE, TRUE, <<Device(TRUE, "PART-001")>>, SelfLink),
      Body(FALSE, TRUE, <<Device(FALSE, "PART-009"), Device(TRUE, "PART-002")>>, AbsPathLink),
      Body(TRUE, TRUE, <<Device(TRUE, "PART-003")>>, AbsoluteLink),
      Body(FALSE, TRUE, <<>>, NetPathLink),
      Body(FALSE, TRUE, <<Device(TRUE, "PART-001")>>, RelPathLink),
      Body(FALSE, TRUE, <<Device(TRUE, "PART-004"), Device(TRUE, "PART-004")>>, QueryLink),
      Body(FALSE, TRUE, <<Device(TRUE, "PART-002")>>, EmptyStr),
      Body(FALSE, TRUE, <<>>, EmptyStr),
      Body(FALSE, TRUE, <<Device(TRUE, "PART-002")>>, BadStr) }

JunkBody == Body(TRUE, FALSE, <<>>, EmptyStr)

Statuses == {101, 200, 204, 299, 300, 404}

Resp(kind, cause, status, body) ==
    [kind |-> kind, cause |-> cause, status |-> status, body |-> body]

\* The page of the server whose next link points back at itself.
LoopBody == Body(FALSE, TRUE, <<Device(TRUE, "PART-001")>>, SelfLink)

LoopResponse == Resp("http", "", 200, LoopBody)

\* Failures of client.Do and of io.ReadAll; a canceled context aborts both.
TransportCauses(ctx) == {"connection refused"} \cup (IF ctx = "nil" THEN {} ELSE {ctx})

\* Everything one client.Do can produce.
Answers(ctx) ==
    { Resp("doErr", c, 0, NoBody) : c \in TransportCauses(ctx) }
    \cup { Resp("readErr", c, 200, NoBody) : c \in TransportCauses(ctx) }
    \cup { Resp("http", "", s, b) : s \in Statuses \cap (200..299), b \in PageBodies \cup {JunkBody} }
    \cup { Resp("http", "", s, b) : s \in Statuses \ (200..299), b \in {JunkBody, LoopBody} }

\* The server's view of a response: the last page of a chain or a failure.
Continues(r) ==
    /\ r.kind = "http"
    /\ r.status \in 200..299
    /\ r.body.json
    /\ r.body.next # EmptyStr
    /\ r.body.next.wf

\* What the self-linking server and its transport answer.
LateAnswers(ctx) ==
    { Resp("doErr", c, 0, NoBody) : c \in TransportCauses(ctx) }
    \cup { LoopResponse,
           Resp("http", "", 200, Body(FALSE, TRUE, <<Device(TRUE, "PART-002")>>, EmptyStr)),
           Resp("http", "", 200, Body(FALSE, TRUE, <<Device(TRUE, "PART-002")>>, BadStr)),
           Resp("http", "", 200, JunkBody),
           Resp("http", "", 404, JunkBody),
           Resp("readErr", "connection refused", 200, NoBody) }

\* What the server with few pages and its transport answer.
FewAnswers(ctx) ==
    { Resp("doErr", c, 0, NoBody) : c \in TransportCauses(ctx) }
    \cup { Resp("http", "", 200,
                Body(FALSE, TRUE, <<Device(FALSE, "PART-009"), Device(TRUE, "PART-002")>>,
                     AbsPathLink)),
           Resp("http", "", 200, Body(FALSE, TRUE, <<Device(TRUE, "PART-002")>>, EmptyStr)),
           Resp("http", "", 204, Body(FALSE, TRUE, <<>>, EmptyStr)),
           Resp("http", "", 404, JunkBody) }

\* What `served` keeps of an answer.  The status of a success is not kept:
\* answers 200, 204 and 299 with one body make one history.
Success(r) == r.kind = "http" /\ r.status \in 200..299

Digest(r) ==
    [kind |-> r.kind, success |-> Success(r), cause |-> r.cause,
     status |-> IF Success(r) THEN 0 ELSE r.status, body |-> r.body]

\* The answers to the fetch being made now.  The self-linking server
\* paginates for ever; any other chain has at most MaxRich + 1 pages.
ServerAnswers ==
    IF server = "loop" THEN LateAnswers(ctxErr)
    ELSE IF server = "few"
    THEN (IF fetches <= MaxRich THEN FewAnswers(ctxErr)
          ELSE { r \in FewAnswers(ctxErr) : ~Continues(r) })
    ELSE IF fetches <= MaxRich THEN Answers(ctxErr)
    ELSE { r \in Answers(ctxErr) : ~Continues(r) }

----------------------------------------------------------------------------
(* Histories.  The elements handed to yield, the answers of the         *)
(* transport and the accumulated part numbers are kept as sequences in   *)
(* run-length form: <<[e |-> x, n |-> 3], [e |-> y, n |-> 1]>> is the      *)
(* sequence x, x, x, y.  Adjacent runs never hold the same element.      *)

\* the sequence with n more copies of e at its end
RAppendN(log, e, n) ==
    IF n = 0 THEN log
    ELSE IF log # <<>> /\ log[Len(log)].e = e
    THEN [log EXCEPT ![Len(log)].n = @ + n]
    ELSE Append(log, [e |-> e, n |-> n])

RAppend(log, e) == RAppendN(log, e, 1)

RECURSIVE RLenUpTo(_, _)
RLenUpTo(log, r) == IF r = 0 THEN 0 ELSE log[r].n + RLenUpTo(log, r - 1)

\* its length
RLen(log) == RLenUpTo(log, Len(log))

RLast(log) == log[Len(log)].e

RECURSIVE RConcatUpTo(_, _, _)
RConcatUpTo(log, seq, k) ==
    IF k = 0 THEN log ELSE RAppend(RConcatUpTo(log, seq, k - 1), seq[k])

\* the sequence followed by the elements of the plain sequence seq
RConcat(log, seq) == RConcatUpTo(log, seq, Len(seq))

----------------------------------------------------------------------------
(* Bounds of the authentication session *)

\* The clock takes the positions 0..MaxTick.
MaxTick == 2

\* The goroutines that call Token() on the one token source.
NCallers == 2

\* Token() is called at most MaxCalls times in a session.
MaxCalls == 3

Callers == 1..NCallers

----------------------------------------------------------------------------
(* Time: time.Time as whole seconds and nanoseconds within the second *)

\* time.Second, in nanoseconds
Second == 1000000000

Time(sec, nsec) == [sec |-> sec, nsec |-> nsec]

\* n * time.Hour
Hours(n) == Time(n * 3600, 0)

\* n * time.Second
Seconds(n) == Time(n, 0)

\* t.Add(d), for d >= 0
Add(t, d) ==
    Time(t.sec + d.sec + ((t.nsec + d.nsec) \div Second), (t.nsec + d.nsec) % Second)

\* t.Add(-d), for d a whole number of seconds
Sub(t, d) == Time(t.sec - d.sec, t.nsec)

\* t.Before(u)
Before(t, u) == t.sec < u.sec \/ (t.sec = u.sec /\ t.nsec < u.nsec)

\* the zero time.Time
ZeroTime == Time(0, 0)

\* time.Now() at clock position i: half an hour passes between positions,
\* and the positions fall on different fractions of a second
Instant(i) ==
    Time(1790000000 + 1800 * i,
         CASE i % 3 = 0 -> 0
           [] i % 3 = 1 -> 999999999
           [] OTHER -> 500000000)

----------------------------------------------------------------------------
(* Errors of the authentication functions *)

\* fmt.Errorf("<msg>: %w", err) around an error that itself has a cause
Wrapf(msg, err) ==
    [msg |-> msg, cause |-> err.msg, status |-> 0, body |-> NoBody, inner |-> err.cause]

----------------------------------------------------------------------------
(* Private keys: parseECDSAPrivateKeyFromPEM(pemBytes) *)

\* The bytes of a key file: whether pem.Decode finds a block, the label of
\* the block, how its payload is encoded ("pkcs8", "sec1", "garbage"), and
\* the key inside (algorithm and curve).
PEM(block, type, der, alg, curve) ==
    [block |-> block, type |-> type, der |-> der, alg |-> alg, curve |-> curve]

NotPEM == PEM(FALSE, "", "garbage", "none", "none")

Labels == {"EC PRIVATE KEY", "PRIVATE KEY", "RSA PRIVATE KEY"}

Curves == {"P-224", "P-256", "P-384", "P-521", "secp256k1"}

\* the curves crypto/x509 knows by OID
X509Curves == {"P-224", "P-256", "P-384", "P-521"}

PEMs ==
    {NotPEM}
    \cup {PEM(TRUE, l, d, "ecdsa", c) : l \in Labels, d \in {"pkcs8", "sec1"}, c \in Curves}
    \cup {PEM(TRUE, l, "pkcs8", "rsa", "none") : l \in Labels}
    \cup {PEM(TRUE, l, "garbage", "none", "none") : l \in Labels}

NoKey == [alg |-> "none", curve |-> "none"]

\* x509.ParsePKCS8PrivateKey(der)
ParsePKCS8PrivateKey(pem) ==
    IF pem.der = "garbage"
    THEN [key |-> NoKey, err |-> Errorf("asn1", "structure error")]
    ELSE IF pem.der = "sec1"
    THEN [key |-> NoKey,
          err |-> Errorf("x509", "failed to parse private key (use ParseECPrivateKey)")]
    ELSE IF pem.alg = "ecdsa" /\ pem.curve \notin X509Curves
    THEN [key |-> NoKey, err |-> Errorf("x509", "unknown elliptic curve")]
    ELSE [key |-> [alg |-> pem.alg, curve |-> pem.curve], err |-> NoErr]

\* Mutant: the curve of the parsed key is not compared with P-256.
CurveMismatch_Unchecked(key) == FALSE

\* key.Curve.Params().Name != elliptic.P256().Params().Name
CurveMismatch(key) == key.curve # "P-256"

parseECDSAPrivateKeyFromPEM(pem) ==
    IF ~pem.block
    THEN [key |-> NoKey, err |-> Errorf("missing PEM block", "")]
    ELSE IF pem.type \notin {"EC PRIVATE KEY", "PRIVATE KEY"}
    THEN [key |-> NoKey, err |-> Errorf("unsupported PEM block type", pem.type)]
    ELSE IF ParsePKCS8PrivateKey(pem).err # NoErr
    THEN [key |-> NoKey,
          err |-> Errorf("parse private key", ParsePKCS8PrivateKey(pem).err.cause)]
    ELSE IF ParsePKCS8PrivateKey(pem).key.alg # "ecdsa"
    THEN [key |-> NoKey,
          err |-> Errorf("unexpected private key type", ParsePKCS8PrivateKey(pem).key.alg)]
    ELSE IF CurveMismatch(ParsePKCS8PrivateKey(pem).key)
    THEN [key |-> NoKey,
          err |-> Errorf("unexpected elliptic curve", ParsePKCS8PrivateKey(pem).key.curve)]
    ELSE [key |-> ParsePKCS8PrivateKey(pem).key, err |-> NoErr]

\* A privateKeyPath and what os.ReadFile finds there.
KeyFile(exists, pem) == [exists |-> exists, pem |-> pem]

KeyFiles == {KeyFile(FALSE, NotPEM)} \cup {KeyFile(TRUE, p) : p \in PEMs}

----------------------------------------------------------------------------
(* Assertions: the JWT built and signed by NewAssertion *)

Audience == "https://account.apple.com/auth/oauth2/v2/token"

TokenURL == "https://account.apple.com/auth/oauth2/token"

ClientAssertionURI == "urn:ietf:params:oauth:client-assertion-type:jwt-bearer"

ScopeBusinessAPI == "business.api"

\* jwt.NewNumericDate(t): t.Truncate(time.Second), written as Unix seconds
NewNumericDate(t) == Time(t.sec, 0).sec

\* Mutant: 180 hours.
AssertionLifetime_Hours == Hours(180)

\* 180 * 24 * time.Hour
AssertionLifetime == Hours(180 * 24)

\* A string that may hold a JWT: the text is empty or not, and a JWT shows
\* its header and claims to whoever parses it.
EmptyAssertion == [text |-> ""]

\* token.SignedString(ecKey) for the claims and header NewAssertion sets
SignedAssertion(clientID, keyID, key, issuedAt, id) ==
    [text |-> "jwt",
     header |-> [typ |-> "JWT", alg |-> "ES256", kid |-> keyID],
     claims |-> [iss |-> clientID, sub |-> clientID, aud |-> <<Audience>>,
                 exp |-> NewNumericDate(Add(issuedAt, AssertionLifetime)),
                 iat |-> NewNumericDate(issuedAt),
                 jti |-> id],
     key |-> key]

ClientIDs == {"", "BUSINESSAPI.client"}

KeyIDs == {"", "key-1"}

\* NewAssertion has not been called / was called with these arguments in
\* this context at this time, and returned (val, err)
NoAsCall == [set |-> FALSE]

AsCall(ctx, clientID, keyID, file, val, err) ==
    [set |-> TRUE, ctx |-> ctx, clientID |-> clientID, keyID |-> keyID, file |-> file,
     val |-> val, err |-> err]

----------------------------------------------------------------------------
(* The token source: clientcredentials.Config and the exchange request *)

\* url.Values.Set(key, value)
Set(v, key, value) ==
    [k \in DOMAIN v \cup {key} |-> IF k = key THEN value ELSE v[k]]

NoValues == [k \in {} |-> ""]

\* Mutant: the assertion type is not set.
EndpointParams_NoType(clientAssertion) ==
    Set(NoValues, "client_assertion", clientAssertion)

\* params of NewTokenSource
EndpointParams(clientAssertion) ==
    Set(Set(NoValues, "client_assertion_type", ClientAssertionURI),
        "client_assertion", clientAssertion)

\* Mutant: the style is left to be detected (oauth2.AuthStyleAutoDetect).
AuthStyle_AutoDetect == "AutoDetect"

\* AuthStyle: oauth2.AuthStyleInParams
AuthStyle == "InParams"

\* Mutant: the empty scope is passed on.
DefaultScope_Kept(scope) == scope

\* if scope == "" { scope = ScopeBusinessAPI }
DefaultScope(scope) == IF scope = "" THEN ScopeBusinessAPI ELSE scope

\* the clientcredentials.Config of NewTokenSource; ClientSecret is not set
Config(clientID, clientAssertion, scope) ==
    [ClientID |-> clientID, ClientSecret |-> "", TokenURL |-> TokenURL,
     Scopes |-> <<DefaultScope(scope)>>, EndpointParams |-> EndpointParams(clientAssertion),
     AuthStyle |-> AuthStyle]

\* the form values clientcredentials puts together for config.Token: the
\* grant type, the scopes, the endpoint parameters and, with the style
\* "InParams", client_id and a non-empty client_secret
FormValues(config, style) ==
    LET v0 == Set(NoValues, "grant_type", "client_credentials")
        v1 == IF Len(config.Scopes) > 0 THEN Set(v0, "scope", config.Scopes[1]) ELSE v0
        v2 == [k \in DOMAIN v1 \cup DOMAIN config.EndpointParams |->
                  IF k \in DOMAIN config.EndpointParams
                  THEN config.EndpointParams[k] ELSE v1[k]]
        v3 == IF style = "InParams" /\ config.ClientID # ""
              THEN Set(v2, "client_id", config.ClientID) ELSE v2
    IN  IF style = "InParams" /\ config.ClientSecret # ""
        THEN Set(v3, "client_secret", config.ClientSecret) ELSE v3

\* the keys a token exchange request can carry, in sorted order
FormKeys ==
    <<"client_assertion", "client_assertion_type", "client_id", "client_secret",
      "grant_type", "scope">>

RECURSIVE EncodeUpTo(_, _)
EncodeUpTo(v, n) ==
    IF n = 0 THEN <<>>
    ELSE IF FormKeys[n] \in DOMAIN v
    THEN Append(EncodeUpTo(v, n - 1), [key |-> FormKeys[n], value |-> v[FormKeys[n]]])
    ELSE EncodeUpTo(v, n - 1)

\* url.Values.Encode(): the key=value pairs, sorted by key
Encode(v) == EncodeUpTo(v, Len(FormKeys))

\* the style of the n-th request of one config.Token call: a style left to
\* be detected is tried in the header first and in the parameters second
StyleOf(config, n) ==
    IF config.AuthStyle = "AutoDetect"
    THEN (IF n = 1 THEN "InHeader" ELSE "InParams")
    ELSE config.AuthStyle

\* the token exchange request: http.NewRequest("POST", TokenURL, body)
TokenRequest(config, n) ==
    [method |-> "POST", url |-> config.TokenURL,
     contentType |-> "application/x-www-form-urlencoded",
     basicAuth |-> StyleOf(config, n) = "InHeader",
     body |-> Encode(FormValues(config, StyleOf(config, n)))]

Scopes == {"", ScopeBusinessAPI, "school.api"}

\* NewTokenSource has not been called / was called with these arguments in
\* this context and returned (source, err); nil is a source without config
NoTsCall == [set |-> FALSE, isNil |-> TRUE]

TsCall(ctx, clientID, clientAssertion, scope, isNil, config, err) ==
    [set |-> TRUE, ctx |-> ctx, clientID |-> clientID, clientAssertion |-> clientAssertion,
     scope |-> scope, isNil |-> isNil, config |-> config, err |-> err]

NoConfig == [ClientID |-> ""]

----------------------------------------------------------------------------
(* Tokens and the reuse wrapper *)

\* *oauth2.Token: nil, or an access token (0: the empty string) and Expiry
NoToken == [isNil |-> TRUE, access |-> 0, expiry |-> ZeroTime]

Token(access, expiry) == [isNil |-> FALSE, access |-> access, expiry |-> expiry]

\* the default of oauth2's expiryDelta: 10 seconds
expiryDelta == Seconds(10)

\* Mutant: no token counts as valid.
Valid_Never(t, now) == FALSE

\* (*oauth2.Token).Valid(): there is an access token and it has not expired
Valid(t, now) ==
    /\ ~t.isNil
    /\ t.access # 0
    /\ \/ t.expiry = ZeroTime
       \/ ~Before(Sub(t.expiry, expiryDelta), now)

\* expires_in of the token response, in seconds: 0 is "not given"
ExpiresIn == {0, 5, 3600}

\* What the token endpoint and the transport answer to an exchange request.
TokenResp(kind, access, expiresIn, cause) ==
    [kind |-> kind, access |-> access, expiresIn |-> expiresIn, cause |-> cause]

TokenAnswers(ctx, n) ==
    {TokenResp("token", n, e, "") : e \in ExpiresIn}
    \cup {TokenResp("token", 0, 3600, ""),
          TokenResp("status", 0, 0, "401 Unauthorized"),
          TokenResp("transport", 0, 0, "connection refused")}
    \cup (IF ctx = "nil" THEN {} ELSE {TokenResp("transport", 0, 0, ctx)})

\* what config.Token makes of the answer: the token, or an error
RetrieveToken(a, now) ==
    IF a.kind = "transport"
    THEN [tok |-> NoToken, err |-> Errorf("Post", a.cause)]
    ELSE IF a.kind = "status"
    THEN [tok |-> NoToken, err |-> Errorf("oauth2: cannot fetch token", a.cause)]
    ELSE IF a.access = 0
    THEN [tok |-> NoToken, err |-> Errorf("oauth2: server response missing access_token", "")]
    ELSE [tok |-> Token(a.access, IF a.expiresIn = 0 THEN ZeroTime
                                  ELSE Add(now, Seconds(a.expiresIn))),
          err |-> NoErr]

\* The Token() call of one caller.
NoCaller == 0

Idle == [pc |-> "idle", live |-> TRUE, sent |-> 0, set |-> FALSE, tok |-> NoToken,
         err |-> NoErr]

----------------------------------------------------------------------------
(* The typed client: values *)

maxPageLimit == 1000

StatusCreated == 201

\* "https://api-business.apple.com/"
DefaultAPIBaseURL == URLStr(TRUE, "https", "api-business.apple.com", <<"", "">>, "")

orgDevicesPath == <<"v1", "orgDevices">>

orgDeviceActivitiesURL == <<"v1", "orgDeviceActivities">>

mdmServersPath == <<"v1", "mdmServers">>

\* The baseURL arguments: "", "://bad-url", "/api", "//api.example/abm",
\* "https:///abm", "https://api.example", "https://api.example/abm".
BaseURLs ==
    { EmptyStr,
      BadStr,
      URLStr(TRUE, "", "", <<"", "api">>, ""),
      URLStr(TRUE, "", "api.example", <<"", "abm">>, ""),
      URLStr(TRUE, "https", "", <<"", "abm">>, ""),
      URLStr(TRUE, "https", "api.example", <<>>, ""),
      URLStr(TRUE, "https", "api.example", <<"", "abm">>, "") }

\* if !strings.HasSuffix(parsed.Path, "/") { parsed.Path += "/" }
WithSlash(path) ==
    IF path = <<>> THEN <<"", "">>
    ELSE IF path[Len(path)] = "" /\ Len(path) > 1 THEN path
    ELSE Append(path, "")

\* parsed.Host == ""
HostMissing(u) == u.host = ""

\* parseBaseURL(rawBaseURL string) (*url.URL, error)
parseBaseURL(rawBaseURL) ==
    LET raw == IF rawBaseURL = EmptyStr THEN DefaultAPIBaseURL ELSE rawBaseURL
        parsed == urlParse(raw)
    IN  IF parsed.err
        THEN [url |-> NoURL, err |-> Errorf("parse base URL", "parse")]
        ELSE IF ~IsAbs(parsed.url)
        THEN [url |-> NoURL, err |-> Errorf("base URL must be absolute", "")]
        ELSE IF HostMissing(parsed.url)
        THEN [url |-> NoURL, err |-> Errorf("base URL host is required", "")]
        ELSE [url |-> [parsed.url EXCEPT !.path = WithSlash(parsed.url.path)], err |-> NoErr]

\* A token the client's token source hands out, and the nil token.
AccessToken(access, type) == [isNil |-> FALSE, access |-> access, type |-> type]

NilAccessToken == [isNil |-> TRUE, access |-> "", type |-> ""]

\* The token sources: nil, oauth2.StaticTokenSource, and a source that
\* exchanges (it hands out one of two tokens or fails).
TokenSources == {"nil", "static", "exchanging"}

\* what source.Token() can return
TokenResults(source) ==
    IF source = "static" THEN {[token |-> AccessToken("test-token", ""), err |-> ""]}
    ELSE IF source = "exchanging"
    THEN {[token |-> AccessToken("test-token", ""), err |-> ""],
          [token |-> AccessToken("next-token", "bearer"), err |-> ""],
          [token |-> NilAccessToken, err |-> "token request"]}
    ELSE {}

\* (*oauth2.Token).Type for the types a bearer-token endpoint answers with
TokenType(token) == IF token.type \in {"", "bearer", "Bearer", "BEARER"} THEN "Bearer" ELSE token.type

\* Mutant: the transport passes the request on as it is.
SetAuthHeader_None(token) == [scheme |-> "", credentials |-> ""]

\* (*oauth2.Token).SetAuthHeader: Authorization: <type> <access token>
SetAuthHeader(token) == [scheme |-> TokenType(token), credentials |-> token.access]

\* *Client: nil with the constructor's error, or the base URL and the
\* http.Client whose Transport is &oauth2.Transport{Base, Source}
NoClient == [set |-> FALSE]

ClientValue(ok, url, base, source, err) ==
    [set |-> TRUE, ok |-> ok, baseURL |-> url, base |-> base, source |-> source, err |-> err]

\* the arguments of the constructor call, kept with its result
Constructed(value, httpClient, tokenSource, rawBaseURL) ==
    [set |-> TRUE, ok |-> value.ok, baseURL |-> value.baseURL, base |-> value.base,
     source |-> value.source, err |-> value.err,
     args |-> [httpClient |-> httpClient, tokenSource |-> tokenSource,
               rawBaseURL |-> rawBaseURL]]

\* NewClientWithBaseURL(httpClient, tokenSource, baseURL); httpClient is
\* "nil" or "custom" (a client with a Transport of its own)
NewClientWithBaseURLValue(httpClient, tokenSource, rawBaseURL) ==
    IF tokenSource = "nil"
    THEN ClientValue(FALSE, NoURL, "", "nil", Errorf("token source is required", ""))
    ELSE IF parseBaseURL(rawBaseURL).err # NoErr
    THEN ClientValue(FALSE, NoURL, "", "nil", parseBaseURL(rawBaseURL).err)
    ELSE ClientValue(TRUE, parseBaseURL(rawBaseURL).url,
                     IF httpClient = "nil" THEN "http.DefaultTransport" ELSE "custom",
                     tokenSource, NoErr)

\* The client of the pagination runs: a static token source and the base
\* URL "https://api.example/".
StaticClient ==
    Constructed(NewClientWithBaseURLValue("custom", "static",
                                          URLStr(TRUE, "https", "api.example", <<"", "">>, "")),
                "custom", "static", URLStr(TRUE, "https", "api.example", <<"", "">>, ""))

\* A request as the base transport gets it from oauth2.Transport: the
\* method, the Authorization header, and the token the source returned.
Sent(method, token) == [method |-> method, auth |-> SetAuthHeader(token), token |-> token]

\* Resource IDs: "", "  ", "device-1", " device-1 ", "a/b c".  An ID is its
\* text and the white space around it.
ID(lead, text, trail) == [lead |-> lead, text |-> text, trail |-> trail]

IDs ==
    { ID(FALSE, "", FALSE), ID(TRUE, "", TRUE), ID(FALSE, "device-1", FALSE),
      ID(TRUE, "device-1", TRUE), ID(FALSE, "a/b c", FALSE) }

\* url.PathEscape
PathEscape(text) == IF text = "a/b c" THEN "a%2Fb%20c" ELSE text

\* strings.TrimSpace(id) == ""
BlankID(id) == id.text = ""

\* validateAndEscapeID(name, id string) (string, error)
validateAndEscapeID(name, id) ==
    IF BlankID(id)
    THEN [id |-> "", err |-> Errorf("is required", name)]
    ELSE [id |-> PathEscape(id.text), err |-> NoErr]

\* Field names as passed in options.Fields, and strings.TrimSpace of each.
FieldLists == {<<>>, <<" ">>, <<"partNumber", " serialNumber ", "">>}

TrimField(f) == IF f = " serialNumber " THEN "serialNumber" ELSE IF f = " " THEN "" ELSE f

RECURSIVE TrimmedFields(_)
\* the trimmed, non-empty names: the parts joined with ","
TrimmedFields(fields) ==
    IF fields = <<>> THEN <<>>
    ELSE IF TrimField(Head(fields)) = "" THEN TrimmedFields(Tail(fields))
    ELSE <<TrimField(Head(fields))>> \o TrimmedFields(Tail(fields))

\* setFieldsQuery(query, key, fields)
setFieldsQuery(query, key, fields) ==
    IF TrimmedFields(fields) = <<>> THEN query
    ELSE Set(query, key, TrimmedFields(fields))

Limits == {-1, 0, 1, 1000, 1001}

\* Mutant: the upper bound of limit is not checked.
LimitTooLarge_Unchecked(limit) == FALSE

\* limit > maxPageLimit
LimitTooLarge(limit) == limit > maxPageLimit

\* setLimitQuery(query, limit) error
setLimitQuery(query, limit) ==
    IF limit = 0 THEN [query |-> query, err |-> NoErr]
    ELSE IF limit < 0 THEN [query |-> query, err |-> Errorf("limit must be >= 0", ToString(limit))]
    ELSE IF LimitTooLarge(limit)
    THEN [query |-> query, err |-> Errorf("limit must be <= 1000", ToString(limit))]
    ELSE [query |-> Set(query, "limit", ToString(limit)), err |-> NoErr]

\* the keys a query can carry, in sorted order
QueryKeys ==
    <<"fields[appleCareCoverage]", "fields[mdmServers]", "fields[orgDeviceActivities]",
      "fields[orgDevices]", "limit">>

RECURSIVE QueryEncodeUpTo(_, _)
QueryEncodeUpTo(v, n) ==
    IF n = 0 THEN <<>>
    ELSE IF QueryKeys[n] \in DOMAIN v
    THEN Append(QueryEncodeUpTo(v, n - 1), [key |-> QueryKeys[n], value |-> v[QueryKeys[n]]])
    ELSE QueryEncodeUpTo(v, n - 1)

\* query.Encode() as resolved.RawQuery: the pairs sorted by key
QueryEncode(v) == QueryEncodeUpTo(v, Len(QueryKeys))

\* (c *Client) buildURL(path, query): the path is resolved against the base
\* URL; the query is kept next to the URL
buildURL(base, path, query) ==
    [url |-> ResolveReference(base, [scheme |-> "", host |-> "", path |-> path, query |-> ""]),
     rawQuery |-> QueryEncode(query),
     err |-> NoErr]

\* The typed operations of Client: method, expected status, the name of
\* the ID argument ("": none), whether the options hold Limit and Fields,
\* the key of the fields, whether options exist at all, and the path
\* around the ID.
Operation(method, expect, idName, hasLimit, fieldKey, before, after) ==
    [method |-> method, expect |-> expect, idName |-> idName, hasLimit |-> hasLimit,
     fieldKey |-> fieldKey, before |-> before, after |-> after]

OperationNames ==
    { "GetOrgDevices", "GetOrgDevice", "GetOrgDeviceAppleCareCoverage", "GetMDMServers",
      "GetMDMServerDeviceLinkages", "GetOrgDeviceAssignedServerLinkage",
      "GetOrgDeviceAssignedServer", "CreateOrgDeviceActivity", "GetOrgDeviceActivity" }

Operations(name) ==
    CASE name = "GetOrgDevices" ->
           Operation("GET", StatusOK, "", TRUE, "fields[orgDevices]", orgDevicesPath, <<>>)
      [] name = "GetOrgDevice" ->
           Operation("GET", StatusOK, "org device ID", FALSE, "fields[orgDevices]",
                     orgDevicesPath, <<>>)
      [] name = "GetOrgDeviceAppleCareCoverage" ->
           Operation("GET", StatusOK, "org device ID", TRUE, "fields[appleCareCoverage]",
                     orgDevicesPath, <<"appleCareCoverage">>)
      [] name = "GetMDMServers" ->
           Operation("GET", StatusOK, "", TRUE, "fields[mdmServers]", mdmServersPath, <<>>)
      [] name = "GetMDMServerDeviceLinkages" ->
           Operation("GET", StatusOK, "mdm server ID", TRUE, "", mdmServersPath,
                     <<"relationships", "devices">>)
      [] name = "GetOrgDeviceAssignedServerLinkage" ->
           Operation("GET", StatusOK, "org device ID", FALSE, "", orgDevicesPath,
                     <<"relationships", "assignedServer">>)
      [] name = "GetOrgDeviceAssignedServer" ->
           Operation("GET", StatusOK, "org device ID", FALSE, "fields[mdmServers]",
                     orgDevicesPath, <<"assignedServer">>)
      [] name = "CreateOrgDeviceActivity" ->
           Operation("POST", StatusCreated, "", FALSE, "", orgDeviceActivitiesURL, <<>>)
      [] name = "GetOrgDeviceActivity" ->
           Operation("GET", StatusOK, "org device activity ID", FALSE,
                     "fields[orgDeviceActivities]", orgDeviceActivitiesURL, <<>>)

\* The options argument: nil, or Fields and Limit as far as the
\* operation's options type has them.
Options(isNil, fields, limit) == [isNil |-> isNil, fields |-> fields, limit |-> limit]

NoOptions == Options(TRUE, <<>>, 0)

OptionsOf(name) ==
    IF Operations(name).fieldKey = "" /\ ~Operations(name).hasLimit THEN {NoOptions}
    ELSE {NoOptions}
         \cup { Options(FALSE, f, l) :
                  f \in (IF Operations(name).fieldKey = "" THEN {<<>>} ELSE FieldLists),
                  l \in (IF Operations(name).hasLimit THEN Limits ELSE {0}) }

IDsOf(name) == IF Operations(name).idName = "" THEN {ID(FALSE, "", FALSE)} ELSE IDs

\* joinPath(parts...): the path of the operation around the escaped ID
joinPath(before, id, after) == before \o (IF id = "" THEN <<>> ELSE <<id>>) \o after

\* The query an operation builds from its options, or the error: the
\* fields, then the limit (buildFieldsAndLimitQuery, or the two calls).
QueryOf(name, options) ==
    LET o == Operations(name)
        fields == IF o.fieldKey = "" \/ options.isNil THEN NoValues
                  ELSE setFieldsQuery(NoValues, o.fieldKey, options.fields)
    IN  IF o.hasLimit /\ ~options.isNil
        THEN setLimitQuery(fields, options.limit)
        ELSE [query |-> fields, err |-> NoErr]

\* Response payloads of the API: the text (nothing, an error document, another
\* JSON object, an error document cut short, a page of HTML), the errors
\* an error document lists, and whether white space surrounds the text.
Payload(pad, text, errors) == [pad |-> pad, text |-> text, errors |-> errors]

NoPayload == Payload(FALSE, "", <<>>)

ErrorItem(code, detail) == [code |-> code, detail |-> detail]

NotFound == ErrorItem("NOT_FOUND", "device not found")

Payloads ==
    { NoPayload,
      Payload(TRUE, "", <<>>),
      Payload(FALSE, "errors", <<NotFound>>),
      Payload(TRUE, "errors", <<NotFound, ErrorItem("", "")>>),
      Payload(FALSE, "object", <<>>),
      Payload(FALSE, "cut", <<NotFound>>),
      Payload(TRUE, "html", <<>>) }

\* len(payload) == 0
IsEmpty(payload) == payload.text = "" /\ ~payload.pad

\* Mutant: the body is kept as received.
Trimmed_Raw(payload) == payload

\* strings.TrimSpace(string(payload)): text without the white space around
Trimmed(payload) == [payload EXCEPT !.pad = FALSE]

\* json.Unmarshal(payload, &v) fails
UnmarshalFails(payload) == payload.text \notin {"errors", "object"}

\* the Errors of the ErrorResponse json.Unmarshal fills in
UnmarshalErrors(payload) == IF payload.text = "errors" THEN payload.errors ELSE <<>>

\* *APIError
APIError(status, body, errors) ==
    [msg |-> "abm api error", cause |-> "", status |-> status, body |-> body,
     errors |-> errors]

\* decodeAPIError(resp, payload) error
decodeAPIError(status, payload) ==
    IF IsEmpty(payload) THEN APIError(status, Trimmed(payload), <<>>)
    ELSE IF UnmarshalFails(payload) THEN APIError(status, Trimmed(payload), <<>>)
    ELSE APIError(status, Trimmed(payload), UnmarshalErrors(payload))

\* Mutant: every 2xx status is taken, as PageIterator does.
statusAllowed_Any2xx(statusCode, expected) == statusCode \in 200..299

\* statusAllowed(statusCode, expectedStatusCodes): slices.Contains
statusAllowed(statusCode, expected) == statusCode = expected

ApiStatuses == {200, 201, 204, 404, 500}

\* Everything one httpClient.Do of a typed operation can produce once the
\* transport has a token.
ApiAnswers(ctx) ==
    { Resp("doErr", c, 0, NoPayload) : c \in TransportCauses(ctx) }
    \cup { Resp("readErr", c, s, NoPayload) : c \in TransportCauses(ctx), s \in {200, 404} }
    \cup { Resp("http", "", s, b) : s \in ApiStatuses, b \in Payloads }

\* The answer of the transport when the token source failed: no request
\* is handed to the base transport.
TokenFailure(cause) == Resp("tokenErr", cause, 0, NoPayload)

\* The request doJSONRequest builds.
Request(method, target, body) ==
    [method |-> method, url |-> target.url, rawQuery |-> target.rawQuery,
     accept |-> "application/json",
     contentType |-> IF body THEN "application/json" ELSE "",
     body |-> body]

NoRequest == [method |-> ""]

\* What doJSONRequest makes of the answer r: the error it returns and
\* whether the payload was decoded into responseBody.
Outcome(err, decoded) == [err |-> err, decoded |-> decoded]

doJSONRequestOutcome(expect, r) ==
    IF r.kind \in {"doErr", "tokenErr"} THEN Outcome(Errorf("send request", r.cause), FALSE)
    ELSE IF r.kind = "readErr" THEN Outcome(Errorf("read response body", r.cause), FALSE)
    ELSE IF ~statusAllowed(r.status, expect) THEN Outcome(decodeAPIError(r.status, r.body), FALSE)
    ELSE IF IsEmpty(r.body) THEN Outcome(NoErr, FALSE)
    ELSE IF UnmarshalFails(r.body) THEN Outcome(Errorf("decode response body", "json"), FALSE)
    ELSE Outcome(NoErr, TRUE)

\* One call of a typed operation: its arguments, its position ("inflight":
\* inside httpClient.Do), the request built, the answer and the result.
NoOp == [pc |-> "idle"]

OpCalled(name, id, options, ctx, at, req, resp, err, decoded) ==
    [pc |-> at, name |-> name, id |-> id, options |-> options, ctx |-> ctx,
     req |-> req, resp |-> resp, err |-> err, decoded |-> decoded]

NoResp == Resp("none", "", 0, NoPayload)

----------------------------------------------------------------------------
(* State *)

NoPage == [data |-> <<>>, next |-> EmptyStr]

\* FetchOrgDevicePartNumbers has not returned / returned (nil, err) / (val, nil)
NoRet == [set |-> FALSE, isNil |-> TRUE, val |-> <<>>, err |-> NoErr]

RetErr(err) == [set |-> TRUE, isNil |-> TRUE, val |-> <<>>, err |-> err]

RetVal(val) == [set |-> TRUE, isNil |-> FALSE, val |-> val, err |-> NoErr]

\* One element handed to yield: (data, nil) or (zero, err).
PageElem(data) == [data |-> data, err |-> NoErr]

ErrElem(err) == [data |-> <<>>, err |-> err]

\* No iteration has run yet.
Fresh ==
    /\ iterNo = 0
    /\ nextURL = EmptyStr
    /\ page = 0
    /\ reqURL = NoURL
    /\ cur = NoPage
    /\ fetches = 0
    /\ decodes = 0
    /\ served = <<>>
    /\ out = <<>>
    /\ stopped = FALSE
    /\ partNumbers = <<>>
    /\ ret = NoRet

\* Nothing of the authentication functions has been called.
NoneCalled ==
    /\ tick = 0
    /\ keyReads = 0
    /\ uuids = 0
    /\ asCall = NoAsCall
    /\ tsCall = NoTsCall
    /\ cached = NoToken
    /\ holder = NoCaller
    /\ calls = [c \in Callers |-> Idle]
    /\ tokenCalls = 0
    /\ inflight = {}
    /\ posts = 0

Init ==
    /\ ctxErr \in {"nil", "context canceled"}
    /\ server \in {"any", "loop"}
    /\ caller \in {"range", "FetchOrgDevicePartNumbers"}
    /\ baseURL \in (IF caller = "range" THEN StartURLs ELSE {DefaultURL})
    /\ pc = (IF caller = "range" THEN "idle" ELSE "call")
    /\ Fresh
    /\ stage = "off"
    /\ NoneCalled
    /\ client = StaticClient
    /\ op = NoOp
    /\ wire = <<>>

\* An authentication session, or one call of FetchOrgDevicePartNumbers.
AuthInit ==
    /\ ctxErr \in {"nil", "context canceled"}
    /\ server = "any"
    /\ baseURL = DefaultURL
    /\ caller \in {"session", "FetchOrgDevicePartNumbers"}
    /\ pc = (IF caller = "session" THEN "off" ELSE "call")
    /\ Fresh
    /\ stage = (IF caller = "session" THEN "start" ELSE "off")
    /\ NoneCalled
    /\ client = StaticClient
    /\ op = NoOp
    /\ wire = <<>>

\* A program that constructs a client and then calls one of its
\* operations: a typed operation or FetchOrgDevicePartNumbers.
ClientInit ==
    /\ ctxErr \in {"nil", "context canceled"}
    /\ server = "few"
    /\ baseURL = EmptyStr
    /\ caller \in {"typed", "FetchOrgDevicePartNumbers"}
    /\ pc = (IF caller = "typed" THEN "off" ELSE "call")
    /\ Fresh
    /\ stage = "off"
    /\ NoneCalled
    /\ client = NoClient
    /\ op = NoOp
    /\ wire = <<>>

----------------------------------------------------------------------------
(* The context *)

\* cancel() is called, or the deadline of the context passes.
Cancel ==
    /\ ctxErr = "nil"
    /\ pc # "returned"
    /\ ctxErr' \in {"context canceled", "context deadline exceeded"}
    /\ UNCHANGED <<server, caller, baseURL, iterNo, pc, nextURL, page, reqURL, cur, fetches,
                   decodes, served, out, stopped, partNumbers, ret>>
    /\ UNCHANGED <<authVars, clientVars>>

----------------------------------------------------------------------------
(* PageIterator *)

\* Mutant: the return after yield(zero, err) is missing and the error is
\* handed over once more.
YieldError_Twice(err) ==
    /\ out' = RAppendN(out, ErrElem(err), 2)
    /\ pc' = "yieldErr"

\* yield(zero, err); return.  The element is handed over and the iterator
\* is left whatever the consumer answers.
YieldError(err) ==
    /\ out' = RAppend(out, ErrElem(err))
    /\ pc' = "yieldErr"

\* Mutant: the entry check of the context is missing.
EntryCtxErr_Missing == "nil"

\* if err := ctx.Err(); err != nil, on entry of the closure
EntryCtxErr == ctxErr

\* Mutant: nextURL is declared outside the closure and so kept from one
\* iteration of the sequence value to the next.
FirstURL_Kept == IF iterNo = 0 THEN baseURL ELSE nextURL

\* nextURL := baseURL
FirstURL == baseURL

\* The closure is called: a `range` statement starts over the sequence
\* value.  nextURL and page are locals of this call.
Start ==
    /\ \/ pc = "idle"
       \/ pc = "done" /\ caller = "range" /\ iterNo < MaxIter
    /\ iterNo' = iterNo + 1
    /\ fetches' = 0
    /\ decodes' = 0
    /\ served' = <<>>
    /\ stopped' = FALSE
    /\ reqURL' = NoURL
    /\ cur' = NoPage
    /\ page' = 0
    /\ IF EntryCtxErr # "nil"
       THEN /\ out' = RAppend(<<>>, ErrElem(CtxError(EntryCtxErr)))
            /\ pc' = "yieldErr"
            /\ nextURL' = EmptyStr
       ELSE /\ out' = <<>>
            /\ pc' = "loop"
            /\ nextURL' = FirstURL
    /\ UNCHANGED <<ctxErr, server, caller, baseURL, partNumbers, ret>>
    /\ UNCHANGED <<authVars, clientVars>>

\* Mutant: the context is checked on entry only, not in the loop.
LoopCtxErr_Missing == "nil"

\* if err := ctx.Err(); err != nil, at the head of the loop body
LoopCtxErr == ctxErr

\* Mutant: the ceiling is reached one page early.
PageLimitReached_Early == page >= maxPages - 1

\* Mutant: there is no ceiling.
PageLimitReached_Never == FALSE

\* Mutant: the ceiling is compared with > instead of >=.
PageLimitReached_OffByOne == page > maxPages

\* page >= maxPages
PageLimitReached == page >= maxPages

\* The head of the loop up to the call of client.Do.
LoopHead ==
    /\ pc = "loop"
    /\ IF nextURL = EmptyStr
       THEN /\ pc' = "done"
            /\ UNCHANGED <<out, reqURL, fetches>>
       ELSE IF LoopCtxErr # "nil"
       THEN /\ YieldError(CtxError(LoopCtxErr))
            /\ UNCHANGED <<reqURL, fetches>>
       ELSE IF PageLimitReached
       THEN /\ YieldError(PageLimitError)
            /\ UNCHANGED <<reqURL, fetches>>
       ELSE IF urlParse(nextURL).err
       THEN /\ YieldError(Errorf("build paginated request", "parse"))
            /\ UNCHANGED <<reqURL, fetches>>
       ELSE /\ reqURL' = urlParse(nextURL).url
            /\ fetches' = fetches + 1
            /\ pc' = "inflight"
            /\ UNCHANGED out
    /\ UNCHANGED <<ctxErr, server, caller, baseURL, iterNo, nextURL, page, cur, decodes,
                   served, stopped, partNumbers, ret>>
    /\ UNCHANGED <<authVars, clientVars>>

\* Mutant: only 4xx and 5xx answers are failures.
StatusFails_From400(status) == status >= 400

\* Mutant: a page whose next link does not parse is refused like a page
\* that does not decode.
DecodeFailed_BadLink(payload) ==
    decodeOrgDevices(payload).err # NoErr \/ ~decodeOrgDevices(payload).next.wf

\* Mutant: the decoder's error is not looked at.
DecodeFailed_Ignored(payload) == FALSE

\* data, nextLink, err := decoder(payload); err != nil
DecodeFailed(payload) == decodeOrgDevices(payload).err # NoErr

\* resp.StatusCode < http.StatusOK || resp.StatusCode >= http.StatusMultipleChoices
StatusFails(status) == status < StatusOK \/ status >= StatusMultipleChoices

\* client.Do returns with answer r; the body is read, the status checked
\* and the payload decoded, up to the yield of the page or of the error.
Receive(r) ==
    /\ served' = RAppend(served, Digest(r))
    /\ IF r.kind = "doErr"
       THEN /\ YieldError(Errorf("paginated request", r.cause))
            /\ UNCHANGED <<cur, decodes>>
       ELSE IF r.kind = "readErr"
       THEN /\ YieldError(Errorf("read response", r.cause))
            /\ UNCHANGED <<cur, decodes>>
       ELSE IF StatusFails(r.status)
       THEN /\ YieldError(StatusError(r.status, r.body))
            /\ UNCHANGED <<cur, decodes>>
       ELSE /\ decodes' = decodes + 1
            /\ IF DecodeFailed(r.body)
               THEN /\ YieldError(decodeOrgDevices(r.body).err)
                    /\ UNCHANGED cur
               ELSE /\ cur' = [data |-> decodeOrgDevices(r.body).data,
                               next |-> decodeOrgDevices(r.body).next]
                    /\ out' = RAppend(out, PageElem(decodeOrgDevices(r.body).data))
                    /\ pc' = "yieldPage"

\* client.Do(req).  The http.Client of FetchOrgDevicePartNumbers is the
\* Client's: its oauth2.Transport asks the token source first and hands
\* the request on, with the Authorization header, only when it got a token.
Do ==
    /\ pc = "inflight"
    /\ IF caller = "FetchOrgDevicePartNumbers"
       THEN \E t \in TokenResults(client.source) :
               IF t.err # ""
               THEN /\ Receive(Resp("doErr", t.err, 0, NoBody))
                    /\ wire' = wire
               ELSE /\ \E r \in ServerAnswers : Receive(r)
                    /\ wire' = RAppend(wire, Sent("GET", t.token))
       ELSE /\ \E r \in ServerAnswers : Receive(r)
            /\ wire' = wire
    /\ UNCHANGED <<ctxErr, server, caller, baseURL, iterNo, nextURL, page, reqURL, fetches,
                   stopped, partNumbers, ret>>
    /\ UNCHANGED <<authVars, client, op>>

\* Mutant: the answer of yield is not looked at.
YieldStops_Ignored(continue) == FALSE

\* if !yield(data, nil)
YieldStops(continue) == ~continue

\* Mutant: the next link is resolved against the start URL.
ResolveBase_Start == urlParse(baseURL).url

\* the base handed to resolveNextURL: req.URL
ResolveBase == reqURL

\* yield(data, nil) returned `continue`: the rest of the loop body.
AfterYield(continue) ==
    /\ stopped' = ~continue
    /\ IF YieldStops(continue)
       THEN /\ pc' = "done"
            /\ UNCHANGED <<nextURL, page, out>>
       ELSE IF resolveNextURL(ResolveBase, cur.next).err
       THEN /\ YieldError(Errorf("parse next links url", "parse"))
            /\ UNCHANGED <<nextURL, page>>
       ELSE /\ nextURL' = resolveNextURL(ResolveBase, cur.next).url
            /\ page' = page + 1
            /\ pc' = "loop"
            /\ UNCHANGED out

----------------------------------------------------------------------------
(* The callers *)

\* The body of an arbitrary range loop returns from the yield of a page:
\* it goes on or breaks.
RangeBody ==
    /\ pc = "yieldPage"
    /\ caller = "range"
    /\ \E continue \in BOOLEAN : AfterYield(continue)
    /\ UNCHANGED <<ctxErr, server, caller, baseURL, iterNo, reqURL, cur, fetches, decodes,
                   served, partNumbers, ret>>
    /\ UNCHANGED <<authVars, clientVars>>

\* Mutant: the return after yield(zero, err) is missing, so a consumer that
\* answers true makes the loop go on.
RangeBodyErr_Resume ==
    /\ pc = "yieldErr"
    /\ caller = "range"
    /\ \E continue \in BOOLEAN : pc' = (IF continue THEN "loop" ELSE "done")
    /\ UNCHANGED <<ctxErr, server, caller, baseURL, iterNo, nextURL, page, reqURL, cur,
                   fetches, decodes, served, out, stopped, partNumbers, ret>>
    /\ UNCHANGED <<authVars, clientVars>>

\* The body of an arbitrary range loop returns from the yield of an error.
RangeBodyErr ==
    /\ pc = "yieldErr"
    /\ caller = "range"
    /\ \E continue \in BOOLEAN : pc' = "done"
    /\ UNCHANGED <<ctxErr, server, caller, baseURL, iterNo, nextURL, page, reqURL, cur, fetches,
                   decodes, served, out, stopped, partNumbers, ret>>
    /\ UNCHANGED <<authVars, clientVars>>

\* FetchOrgDevicePartNumbers up to its range statement.
FetchCall ==
    /\ pc = "call"
    /\ caller = "FetchOrgDevicePartNumbers"
    /\ client.set
    /\ client.ok
    /\ IF ctxErr # "nil"
       THEN /\ ret' = RetErr(CtxError(ctxErr))
            /\ pc' = "returned"
            /\ UNCHANGED <<partNumbers, baseURL>>
       ELSE /\ baseURL' = urlString(buildURL(client.baseURL, orgDevicesPath, NoValues).url)
            /\ partNumbers' = <<>>
            /\ pc' = "idle"
            /\ UNCHANGED ret
    /\ UNCHANGED <<ctxErr, server, caller, iterNo, nextURL, page, reqURL, cur, fetches,
                   decodes, served, out, stopped>>
    /\ UNCHANGED <<authVars, clientVars>>

\* Its loop body on a page: append and go on.
FetchBody ==
    /\ pc = "yieldPage"
    /\ caller = "FetchOrgDevicePartNumbers"
    /\ partNumbers' = RConcat(partNumbers, cur.data)
    /\ AfterYield(TRUE)
    /\ UNCHANGED <<ctxErr, server, caller, baseURL, iterNo, reqURL, cur, fetches, decodes,
                   served, ret>>
    /\ UNCHANGED <<authVars, clientVars>>

\* Mutant: the part numbers gathered so far are returned with the error.
FetchBodyErr_Partial ==
    /\ pc = "yieldErr"
    /\ caller = "FetchOrgDevicePartNumbers"
    /\ ret' = [set |-> TRUE, isNil |-> FALSE, val |-> partNumbers, err |-> RLast(out).err]
    /\ pc' = "returned"
    /\ UNCHANGED <<ctxErr, server, caller, baseURL, iterNo, nextURL, page, reqURL, cur, fetches,
                   decodes, served, out, stopped, partNumbers>>
    /\ UNCHANGED <<authVars, clientVars>>

\* Its loop body on an error: return nil, err.
FetchBodyErr ==
    /\ pc = "yieldErr"
    /\ caller = "FetchOrgDevicePartNumbers"
    /\ ret' = RetErr(RLast(out).err)
    /\ pc' = "returned"
    /\ UNCHANGED <<ctxErr, server, caller, baseURL, iterNo, nextURL, page, reqURL, cur, fetches,
                   decodes, served, out, stopped, partNumbers>>
    /\ UNCHANGED <<authVars, clientVars>>

\* The sequence ended: return partNumbers, nil.
FetchReturn ==
    /\ pc = "done"
    /\ caller = "FetchOrgDevicePartNumbers"
    /\ ret' = RetVal(partNumbers)
    /\ pc' = "returned"
    /\ UNCHANGED <<ctxErr, server, caller, baseURL, iterNo, nextURL, page, reqURL, cur, fetches,
                   decodes, served, out, stopped, partNumbers>>
    /\ UNCHANGED <<authVars, clientVars>>

----------------------------------------------------------------------------
(* The typed client *)

\* NewClientWithBaseURL(httpClient, tokenSource, baseURL)
NewClientWithBaseURL ==
    /\ ~client.set
    /\ \E h \in {"nil", "custom"}, s \in TokenSources, b \in BaseURLs :
          client' = Constructed(NewClientWithBaseURLValue(h, s, b), h, s, b)
    /\ UNCHANGED <<ctxErr, op, wire>>
    /\ UNCHANGED pageVars
    /\ UNCHANGED authVars

\* A typed operation is called: its validation of the ID and of the
\* options, and doJSONRequest up to httpClient.Do.
OpCall ==
    /\ caller = "typed"
    /\ client.set
    /\ client.ok
    /\ op.pc = "idle"
    /\ \E name \in OperationNames :
         \E id \in IDsOf(name), o \in OptionsOf(name) :
           LET v == validateAndEscapeID(Operations(name).idName, id)
               q == QueryOf(name, o)
               target == buildURL(client.baseURL,
                                  joinPath(Operations(name).before, v.id, Operations(name).after),
                                  q.query)
               req == Request(Operations(name).method, target, name = "CreateOrgDeviceActivity")
           IN  op' = IF Operations(name).idName # "" /\ v.err # NoErr
                     THEN OpCalled(name, id, o, ctxErr, "returned", NoRequest, NoResp,
                                   v.err, FALSE)
                     ELSE IF q.err # NoErr
                     THEN OpCalled(name, id, o, ctxErr, "returned", NoRequest, NoResp,
                                   q.err, FALSE)
                     ELSE IF ctxErr # "nil"
                     THEN OpCalled(name, id, o, ctxErr, "returned", NoRequest, NoResp,
                                   CtxError(ctxErr), FALSE)
                     ELSE OpCalled(name, id, o, ctxErr, "inflight", req, NoResp,
                                   NoErr, FALSE)
    /\ UNCHANGED <<ctxErr, client, wire>>
    /\ UNCHANGED pageVars
    /\ UNCHANGED authVars

\* the call returns what doJSONRequest makes of the answer r
Finished(r) ==
    op' = [op EXCEPT !.pc = "returned",
                     !.resp = r,
                     !.err = doJSONRequestOutcome(Operations(op.name).expect, r).err,
                     !.decoded = doJSONRequestOutcome(Operations(op.name).expect, r).decoded]

\* c.httpClient.Do(req) and the rest of doJSONRequest.  The
\* oauth2.Transport asks the token source first; with a token it sets the
\* Authorization header and hands the request to the base transport.
OpDo ==
    /\ op.pc = "inflight"
    /\ \E t \in TokenResults(client.source) :
          IF t.err # ""
          THEN /\ Finished(TokenFailure(t.err))
               /\ wire' = wire
          ELSE /\ \E r \in ApiAnswers(ctxErr) : Finished(r)
               /\ wire' = RAppend(wire, Sent(op.req.method, t.token))
    /\ UNCHANGED <<ctxErr, client>>
    /\ UNCHANGED pageVars
    /\ UNCHANGED authVars

----------------------------------------------------------------------------
(* The clock *)

\* Time passes.
Tick ==
    /\ stage # "off"
    /\ tick < MaxTick
    /\ tick' = tick + 1
    /\ UNCHANGED <<ctxErr, stage, keyReads, uuids, asCall, tsCall, cached, holder, calls,
                   tokenCalls, inflight, posts>>
    /\ UNCHANGED <<pageVars, clientVars>>

----------------------------------------------------------------------------
(* NewAssertion(ctx, clientID, keyID, privateKeyPath) (string, error) *)

\* Mutant: the context is not looked at.
AssertionCtxErr_Missing == "nil"

\* ctx.Err() on entry
AssertionCtxErr == ctxErr

NewAssertion ==
    /\ stage = "start"
    /\ \E clientID \in ClientIDs, keyID \in KeyIDs, file \in KeyFiles :
         IF AssertionCtxErr # "nil"
         THEN /\ asCall' = AsCall(ctxErr, clientID, keyID, file, EmptyAssertion,
                                  CtxError(AssertionCtxErr))
              /\ UNCHANGED <<keyReads, uuids>>
         ELSE /\ keyReads' = keyReads + 1
              /\ IF ~file.exists
                 THEN /\ asCall' = AsCall(ctxErr, clientID, keyID, file, EmptyAssertion,
                                          Errorf("read private key", "no such file or directory"))
                      /\ UNCHANGED uuids
                 ELSE IF parseECDSAPrivateKeyFromPEM(file.pem).err # NoErr
                 THEN /\ asCall' = AsCall(ctxErr, clientID, keyID, file, EmptyAssertion,
                                          Wrapf("parse private key",
                                                parseECDSAPrivateKeyFromPEM(file.pem).err))
                      /\ UNCHANGED uuids
                 ELSE /\ asCall' = AsCall(ctxErr, clientID, keyID, file,
                                          SignedAssertion(clientID, keyID,
                                              parseECDSAPrivateKeyFromPEM(file.pem).key,
                                              Instant(tick), uuids + 1),
                                          NoErr)
                      /\ uuids' = uuids + 1
    /\ stage' = "asserted"
    /\ UNCHANGED <<ctxErr, tick, tsCall, cached, holder, calls, tokenCalls, inflight, posts>>
    /\ UNCHANGED <<pageVars, clientVars>>

----------------------------------------------------------------------------
(* NewTokenSource(ctx, httpClient, clientID, clientAssertion, scope) *)

\* an assertion as NewAssertion returns it
SomeAssertion ==
    SignedAssertion("BUSINESSAPI.client", "key-1", [alg |-> "ecdsa", curve |-> "P-256"],
                    Instant(0), 1)

\* ctx.Err() on entry
SourceCtxErr == ctxErr

\* The source returned is oauth2.ReuseTokenSource(nil, src): it holds no token.
NewTokenSource ==
    /\ stage = "start"
    /\ \E clientID \in ClientIDs, clientAssertion \in {EmptyAssertion, SomeAssertion},
          scope \in Scopes :
         IF SourceCtxErr # "nil"
         THEN /\ tsCall' = TsCall(ctxErr, clientID, clientAssertion, scope, TRUE, NoConfig,
                                  CtxError(SourceCtxErr))
              /\ stage' = "refused"
         ELSE IF clientID = ""
         THEN /\ tsCall' = TsCall(ctxErr, clientID, clientAssertion, scope, TRUE, NoConfig,
                                  Errorf("client ID is required", ""))
              /\ stage' = "refused"
         ELSE IF clientAssertion.text = ""
         THEN /\ tsCall' = TsCall(ctxErr, clientID, clientAssertion, scope, TRUE, NoConfig,
                                  Errorf("client assertion is required", ""))
              /\ stage' = "refused"
         ELSE /\ tsCall' = TsCall(ctxErr, clientID, clientAssertion, scope, FALSE,
                                  Config(clientID, clientAssertion, scope), NoErr)
              /\ stage' = "sourced"
    /\ cached' = NoToken
    /\ UNCHANGED <<ctxErr, tick, keyReads, uuids, asCall, holder, calls, tokenCalls,
                   inflight, posts>>
    /\ UNCHANGED <<pageVars, clientVars>>

----------------------------------------------------------------------------
(* Token() on the source NewTokenSource returned: the reuse wrapper of    *)
(* oauth2 around clientCredentialsTokenSource.Token                        *)

\* the call of caller c returns (tok, err)
Returned(c, tok, err) ==
    [calls EXCEPT ![c] = [@ EXCEPT !.pc = "idle", !.set = TRUE, !.tok = tok, !.err = err]]

\* the call of caller c moves on to position p
At(c, p) == [calls EXCEPT ![c] = [@ EXCEPT !.pc = p]]

\* A goroutine calls Token() and reaches the lock of the reuse wrapper.
TokenCall(c) ==
    /\ stage = "sourced"
    /\ calls[c].pc = "idle"
    /\ tokenCalls < MaxCalls
    /\ tokenCalls' = tokenCalls + 1
    /\ calls' = [calls EXCEPT ![c] = [pc |-> "lock", live |-> ctxErr = "nil", sent |-> 0,
                                      set |-> FALSE, tok |-> NoToken, err |-> NoErr]]
    /\ UNCHANGED <<ctxErr, stage, tick, keyReads, uuids, asCall, tsCall, cached, holder,
                   inflight, posts>>
    /\ UNCHANGED <<pageVars, clientVars>>

\* Mutant: the wrapper takes no lock.
CanLock_Always == TRUE

\* s.mu.Lock() goes through when nobody holds the mutex
CanLock == holder = NoCaller

\* s.mu.Lock(); if s.t.Valid() { return s.t, nil }, else on to s.new.Token()
TokenLock(c) ==
    /\ calls[c].pc = "lock"
    /\ CanLock
    /\ IF Valid(cached, Instant(tick))
       THEN /\ calls' = Returned(c, cached, NoErr)
            /\ UNCHANGED holder
       ELSE /\ calls' = At(c, "refresh")
            /\ holder' = c
    /\ UNCHANGED <<ctxErr, stage, tick, keyReads, uuids, asCall, tsCall, cached, tokenCalls,
                   inflight, posts>>
    /\ UNCHANGED <<pageVars, clientVars>>

\* Mutant: the context is not looked at.
TokenCtxErr_Missing == "nil"

\* ts.ctx.Err() at the head of clientCredentialsTokenSource.Token
TokenCtxErr == ctxErr

\* if err := ts.ctx.Err(); err != nil { return nil, err }
TokenRefresh(c) ==
    /\ calls[c].pc = "refresh"
    /\ IF TokenCtxErr # "nil"
       THEN /\ calls' = Returned(c, NoToken, CtxError(TokenCtxErr))
            /\ holder' = NoCaller
       ELSE /\ calls' = At(c, "checked")
            /\ UNCHANGED holder
    /\ UNCHANGED <<ctxErr, stage, tick, keyReads, uuids, asCall, tsCall, cached, tokenCalls,
                   inflight, posts>>
    /\ UNCHANGED <<pageVars, clientVars>>

\* ts.config.Token(ts.ctx) sends the exchange request.  A context canceled
\* since the check may make the HTTP client give up before sending.
TokenSend(c) ==
    /\ calls[c].pc = "checked"
    /\ \/ /\ posts' = posts + 1
          /\ inflight' = inflight \cup
                 {[by |-> c, req |-> TokenRequest(tsCall.config, calls[c].sent + 1)]}
          /\ calls' = [calls EXCEPT ![c] = [@ EXCEPT !.pc = "inflight", !.sent = @ + 1]]
          /\ UNCHANGED holder
       \/ /\ ctxErr # "nil"
          /\ calls' = Returned(c, NoToken, Wrapf("token request", Errorf("Post", ctxErr)))
          /\ holder' = NoCaller
          /\ UNCHANGED <<posts, inflight>>
    /\ UNCHANGED <<ctxErr, stage, tick, keyReads, uuids, asCall, tsCall, cached, tokenCalls>>
    /\ UNCHANGED <<pageVars, clientVars>>

\* a failed request is sent once more only while the style is being detected
Retries(config, sent) == config.AuthStyle = "AutoDetect" /\ sent = 1

\* The answer arrives: if err != nil { return nil, fmt.Errorf("token
\* request: %w", err) }; the wrapper keeps a token it gets (s.t = t).
TokenReceive(c) ==
    /\ calls[c].pc = "inflight"
    /\ inflight' = {x \in inflight : x.by # c}
    /\ \E a \in TokenAnswers(ctxErr, posts) :
         IF RetrieveToken(a, Instant(tick)).err # NoErr
         THEN IF Retries(tsCall.config, calls[c].sent)
              THEN /\ calls' = At(c, "checked")
                   /\ UNCHANGED <<holder, cached>>
              ELSE /\ calls' = Returned(c, NoToken,
                                        Wrapf("token request",
                                              RetrieveToken(a, Instant(tick)).err))
                   /\ holder' = NoCaller
                   /\ UNCHANGED cached
         ELSE /\ cached' = RetrieveToken(a, Instant(tick)).tok
              /\ calls' = Returned(c, RetrieveToken(a, Instant(tick)).tok, NoErr)
              /\ holder' = NoCaller
    /\ UNCHANGED <<ctxErr, stage, tick, keyReads, uuids, asCall, tsCall, tokenCalls, posts>>
    /\ UNCHANGED <<pageVars, clientVars>>

----------------------------------------------------------------------------

Next ==
    \/ Cancel
    \/ Start
    \/ LoopHead
    \/ Do
    \/ RangeBody
    \/ RangeBodyErr
    \/ FetchCall
    \/ FetchBody
    \/ FetchBodyErr
    \/ FetchReturn

Spec == Init /\ [][Next]_vars

\* Pagination when every client.Do returns, every yield returns and the
\* iterator's goroutine keeps running.  Nothing makes a consumer start an
\* iteration or a context end.
LiveSpec ==
    /\ Spec
    /\ WF_vars(LoopHead)
    /\ WF_vars(Do)
    /\ WF_vars(RangeBody)
    /\ WF_vars(RangeBodyErr)
    /\ WF_vars(FetchBody)
    /\ WF_vars(FetchBodyErr)

ClientNext ==
    \/ Cancel
    \/ NewClientWithBaseURL
    \/ OpCall
    \/ OpDo
    \/ FetchCall
    \/ Start
    \/ LoopHead
    \/ Do
    \/ FetchBody
    \/ FetchBodyErr
    \/ FetchReturn

ClientSpec == ClientInit /\ [][ClientNext]_vars

AuthNext ==
    \/ Cancel
    \/ Tick
    \/ NewAssertion
    \/ NewTokenSource
    \/ \E c \in Callers : TokenCall(c)
    \/ \E c \in Callers : TokenLock(c)
    \/ \E c \in Callers : TokenRefresh(c)
    \/ \E c \in Callers : TokenSend(c)
    \/ \E c \in Callers : TokenReceive(c)
    \/ FetchCall
    \/ Start
    \/ LoopHead
    \/ Do
    \/ FetchBody
    \/ FetchBodyErr
    \/ FetchReturn

AuthSpec == AuthInit /\ [][AuthNext]_vars

----------------------------------------------------------------------------
(* Vocabulary of the properties *)

IsErr(elem) == elem.err # NoErr

\* the iteration is over
Ended == pc \in {"done", "returned"}

\* an error element has been handed to yield in this iteration
ErrDelivered == out # <<>> /\ IsErr(RLast(out))

\* the step stays within one iteration of the sequence value
SameIteration == iterNo' = iterNo

\* every element of the first r runs of out is a page
PagesUpTo(r) == \A q \in 1..r : ~IsErr(out[q].e)

\* the answer was a 2xx JSON page whose next link is not empty
Continuing(d) == d.success /\ d.body.json /\ d.body.next # EmptyStr

\* the answer was a 2xx JSON page whose next link is empty
Final(d) == d.success /\ d.body.json /\ d.body.next = EmptyStr

----------------------------------------------------------------------------
(* C1: in one iteration an error element is the last element: every     *)
(* element before the last is a page, there is at most one error, and    *)
(* once an error was handed to yield nothing more is yielded and no      *)
(* further client.Do is made, whatever the consumer answers.             *)
C1_ErrorIsLast ==
    /\ [](\A r \in 1..Len(out) : IsErr(out[r].e) => (r = Len(out) /\ out[r].n = 1))
    /\ [][(ErrDelivered /\ SameIteration) => (out' = out /\ fetches' = fetches)]_vars

C1_Witness ==
    /\ pc = "done"
    /\ ErrDelivered
    /\ RLen(out) >= 3
    /\ fetches >= 2

----------------------------------------------------------------------------
(* C2: when every page decodes with a non-empty next link, the consumer  *)
(* never stops and the context stays live, the iteration ends with       *)
(* exactly 1000 pages followed by the page-limit error, which is not     *)
(* the error of a failed fetch; in every state at most 1000 client.Do    *)
(* calls were made in the iteration.                                     *)
C2_PageLimit ==
    /\ fetches <= 1000
    /\ (/\ Ended
        /\ ctxErr = "nil"
        /\ ~stopped
        /\ served # <<>>
        /\ \A r \in 1..Len(served) : Continuing(served[r].e) /\ served[r].e.body.next.wf)
       => /\ RLen(out) = 1001
          /\ PagesUpTo(Len(out) - 1)
          /\ RLast(out).err = PageLimitError
          /\ RLast(out).err.msg \notin {"paginated request", "read response", "request failed"}
          /\ fetches = 1000

C2_Witness ==
    /\ pc = "done"
    /\ ErrDelivered
    /\ RLast(out).err = PageLimitError
    /\ RLen(out) = 1001
    /\ fetches = 1000

----------------------------------------------------------------------------
(* C3: once the N answers of an iteration form a complete chain (all 2xx *)
(* JSON pages, the first N-1 with a non-empty next link, the N-th with   *)
(* an empty one), the elements yielded are exactly the decoded items of  *)
(* the N pages in the order served, without an error element, after      *)
(* exactly N client.Do calls; FetchOrgDevicePartNumbers then returns     *)
(* the concatenation of the pages' part numbers in that order.           *)

ChainComplete ==
    /\ served # <<>>
    /\ \A r \in 1..Len(served) - 1 : Continuing(served[r].e)
    /\ Final(RLast(served))
    /\ served[Len(served)].n = 1

RECURSIVE ItemsUpTo(_)
\* the elements expected for the first r runs of served
ItemsUpTo(r) ==
    IF r = 0 THEN <<>>
    ELSE RAppendN(ItemsUpTo(r - 1),
                  PageElem(decodeOrgDevices(served[r].e.body).data), served[r].n)

RECURSIVE Repeat(_, _, _)
\* log followed by n copies of the plain sequence seq
Repeat(log, seq, n) ==
    IF n = 0 \/ seq = <<>> THEN log
    ELSE IF Len(seq) = 1 THEN RAppendN(log, seq[1], n)
    ELSE Repeat(RConcat(log, seq), seq, n - 1)

RECURSIVE PartsUpTo(_)
\* the part numbers expected for the first r runs of served
PartsUpTo(r) ==
    IF r = 0 THEN <<>>
    ELSE Repeat(PartsUpTo(r - 1), decodeOrgDevices(served[r].e.body).data, served[r].n)

C3_ChainInOrder ==
    ChainComplete =>
        /\ out = ItemsUpTo(Len(served))
        /\ PagesUpTo(Len(out))
        /\ fetches = RLen(served)
        /\ RLen(out) = RLen(served)
        /\ pc = "returned" => ret = RetVal(PartsUpTo(Len(served)))

C3_Witness ==
    /\ ChainComplete
    /\ pc = "returned"
    /\ RLen(served) = 3
    /\ Len(out) >= 2
    /\ RLen(ret.val) >= 4
    /\ out[1].e # RLast(out)

C3_WitnessLong ==
    /\ ChainComplete
    /\ pc = "returned"
    /\ RLen(served) = 1000

----------------------------------------------------------------------------
(* C4: when the consumer stops after the k-th page, exactly k client.Do  *)
(* calls were made, no error element was delivered, and nothing more is  *)
(* fetched or yielded in that iteration, also when page k carried a      *)
(* non-empty next link.                                                  *)
C4_EarlyStop ==
    /\ [](stopped => /\ pc = "done"
                     /\ out # <<>>
                     /\ PagesUpTo(Len(out))
                     /\ fetches = RLen(out))
    /\ [][(stopped /\ SameIteration) => (fetches' = fetches /\ out' = out)]_vars

C4_Witness ==
    /\ stopped
    /\ pc = "done"
    /\ RLen(out) >= 2
    /\ cur.next # EmptyStr
    /\ cur.next.wf

----------------------------------------------------------------------------
(* C5: an iteration started under an already canceled context hands      *)
(* exactly one element to yield, the context's own error value (not      *)
(* wrapped), and makes no client.Do call.                                *)
C5_CanceledAtStart ==
    /\ [][(iterNo' = iterNo + 1 /\ ctxErr # "nil")
            => /\ out' = <<[e |-> ErrElem([msg |-> ctxErr, cause |-> "", status |-> 0,
                                           body |-> NoBody]), n |-> 1]>>
               /\ fetches' = 0
               /\ pc' = "yieldErr"]_vars
    /\ [][(pc = "yieldErr" /\ SameIteration) => (out' = out /\ fetches' = fetches)]_vars

C5_Witness ==
    /\ pc = "done"
    /\ baseURL = DefaultURL
    /\ nextURL = EmptyStr
    /\ fetches = 0
    /\ RLen(out) = 1
    /\ RLast(out).err.msg = "context deadline exceeded"

----------------------------------------------------------------------------
(* C6: the context is checked again before every fetch: at the head of   *)
(* the loop with a next URL to fetch and a canceled context, no          *)
(* client.Do is made, the context's error is the next element and the    *)
(* last one, and the pages delivered before stay delivered.              *)
C6_CancelBetweenPages ==
    /\ [][(pc = "loop" /\ nextURL # EmptyStr /\ ctxErr # "nil" /\ pc' # "loop")
            => /\ fetches' = fetches
               /\ pc' = "yieldErr"
               /\ Len(out') = Len(out) + 1
               /\ SubSeq(out', 1, Len(out)) = out
               /\ RLast(out') = ErrElem(CtxError(ctxErr))
               /\ out'[Len(out')].n = 1]_vars
    /\ [][(pc = "yieldErr" /\ SameIteration) => (out' = out /\ fetches' = fetches)]_vars

C6_Witness ==
    /\ pc = "done"
    /\ ErrDelivered
    /\ RLast(out).err = CtxError(ctxErr)
    /\ fetches >= 2
    /\ RLen(out) = fetches + 1

----------------------------------------------------------------------------
(* C7: when the payload of the k-th page does not decode, the k-th       *)
(* element is the decoder's error (no items of page k are yielded), k    *)
(* client.Do calls were made, and nothing more is fetched or yielded.    *)
UndecodableLast ==
    /\ served # <<>>
    /\ RLast(served).success
    /\ ~RLast(served).body.json

C7_DecodeError ==
    /\ [](UndecodableLast
            => /\ RLen(out) = RLen(served)
               /\ fetches = RLen(served)
               /\ RLast(out) = ErrElem(Errorf("decode org devices response", "json"))
               /\ PagesUpTo(Len(out) - 1)
               /\ pc \in {"yieldErr", "done", "returned"})
    /\ [][(UndecodableLast /\ SameIteration) => (out' = out /\ fetches' = fetches)]_vars

C7_Witness ==
    /\ UndecodableLast
    /\ Ended
    /\ RLen(out) >= 3

----------------------------------------------------------------------------
(* C8: when the answer to the k-th fetch has a status outside 200..299,  *)
(* the k-th element is the status error holding that status and the      *)
(* trimmed body, the decoder is not called on that payload, and nothing  *)
(* more is fetched or yielded; an answer with a status in 200..299 is    *)
(* never turned into a status error and is handed to the decoder.        *)
FailedStatusLast ==
    /\ served # <<>>
    /\ RLast(served).kind = "http"
    /\ ~RLast(served).success

RECURSIVE SuccessesUpTo(_)
\* the number of 2xx answers among the first r runs of served
SuccessesUpTo(r) ==
    IF r = 0 THEN 0
    ELSE SuccessesUpTo(r - 1) + (IF served[r].e.success THEN served[r].n ELSE 0)

C8_StatusError ==
    /\ [](FailedStatusLast
            => /\ RLen(out) = RLen(served)
               /\ fetches = RLen(served)
               /\ RLast(out).err.msg = "request failed"
               /\ RLast(out).err.status = RLast(served).status
               /\ RLast(out).err.body = [RLast(served).body EXCEPT !.pad = FALSE]
               /\ RLast(out).data = <<>>
               /\ PagesUpTo(Len(out) - 1)
               /\ pc \in {"yieldErr", "done", "returned"})
    /\ [](decodes = SuccessesUpTo(Len(served)))
    /\ []((served # <<>> /\ RLast(served).success)
            => \A q \in 1..Len(out) : out[q].e.err.msg # "request failed")
    /\ [][(FailedStatusLast /\ SameIteration) => (out' = out /\ fetches' = fetches)]_vars

C8_Witness ==
    /\ FailedStatusLast
    /\ Ended
    /\ RLen(out) >= 3
    /\ RLast(served).status = 300
    /\ RLast(served).body = JunkBody
    /\ RLast(out).err.body # JunkBody

----------------------------------------------------------------------------
(* C9: when the consumer goes on after a page, an empty next link ends   *)
(* the sequence without a fetch, a next link url.Parse rejects is        *)
(* yielded as a terminal error, an absolute next link is itself the     *)
(* next URL (as url.Parse reads it), and any other next link is          *)
(* resolved against the URL of the request that fetched the page; the    *)
(* next URL is then absolute and is the URL of the next request.         *)
C9_NextURL ==
    /\ [][(pc = "yieldPage" /\ pc' # "yieldPage" /\ ~stopped')
            => IF cur.next = EmptyStr
               THEN pc' = "loop" /\ nextURL' = EmptyStr /\ out' = out
               ELSE IF ~cur.next.wf
               THEN /\ pc' = "yieldErr"
                    /\ RLast(out') = ErrElem(Errorf("parse next links url", "parse"))
                    /\ fetches' = fetches
               ELSE /\ pc' = "loop"
                    /\ out' = out
                    /\ nextURL'.wf /\ nextURL'.canon
                    /\ nextURL'.scheme # "" /\ nextURL'.host # ""
                    /\ IF cur.next.scheme # ""
                       THEN urlParse(nextURL').url = urlParse(cur.next).url
                       ELSE nextURL' = urlString(ResolveReference(reqURL, urlParse(cur.next).url))]_vars
    /\ [][(pc = "loop" /\ nextURL = EmptyStr /\ pc' # "loop")
            => (pc' = "done" /\ out' = out /\ fetches' = fetches)]_vars
    /\ [][(pc = "loop" /\ pc' = "inflight")
            => (urlString(reqURL') = nextURL /\ fetches' = fetches + 1)]_vars

C9_Witness ==
    /\ pc = "inflight"
    /\ baseURL = DefaultURL
    /\ fetches = 3
    /\ reqURL = urlParse(URLStr(TRUE, "https", "alt.example", <<"", "v2", "more">>, "")).url

----------------------------------------------------------------------------
(* C10 as claimed: ranging again over a sequence value that was ranged   *)
(* over before makes no new client.Do call.                              *)
C10_NotRestartable == iterNo >= 2 => fetches = 0

(* C10 as amended: the sequence value keeps no cursor.  Each iteration   *)
(* of it starts with page 0 and no fetch made, hands the context's error *)
(* to yield when the context is canceled, and otherwise starts over      *)
(* from the start URL, so that it fetches again.                         *)
C10_StartsOver ==
    [][(iterNo' = iterNo + 1)
         => /\ page' = 0
            /\ fetches' = 0
            /\ IF ctxErr # "nil"
               THEN pc' = "yieldErr" /\ RLen(out') = 1
               ELSE pc' = "loop" /\ nextURL' = baseURL /\ out' = <<>>]_vars

C10_Witness ==
    /\ iterNo = 2
    /\ fetches >= 2
    /\ pc = "done"
    /\ stopped

------------------------------------------------------------------

----------------------------------------------------------------------------
(* C11 *)

\* The state of the four-state machine an iteration is in; "none" before
\* the sequence value is ranged over.  With an empty nextURL the loop
\* condition ends the iteration: it is done.
Machine ==
    IF iterNo = 0 THEN "none"
    ELSE IF ErrDelivered THEN "failed"
    ELSE IF pc = "yieldPage" THEN "yielding"
    ELSE IF pc = "inflight" \/ (pc = "loop" /\ nextURL # EmptyStr) THEN "fetching"
    ELSE "done"

\* the transitions the four-state machine allows
MachineSteps ==
    {<<"fetching", "yielding">>, <<"yielding", "fetching">>, <<"yielding", "done">>,
     <<"fetching", "failed">>, <<"yielding", "failed">>}

\* out holds exactly one error element, and it is the last element
OneError ==
    /\ ErrDelivered
    /\ out[Len(out)].n = 1
    /\ PagesUpTo(Len(out) - 1)

\* the step begins an iteration in fetching at the start URL, or the entry
\* check of the context fails it
BeginsFetching ==
    \/ Machine' = "fetching" /\ nextURL' = baseURL /\ page' = 0 /\ out' = <<>>
    \/ Machine' = "failed" /\ fetches' = 0 /\ ctxErr # "nil"

\* C11 as stated: an iteration starts in fetching with nextURL = startURL;
\* within an iteration the only transitions are fetching->yielding,
\* yielding->fetching, yielding->done and, on an error, ->failed; done and
\* failed are left by no transition, and failed holds exactly one error element.
C11_FourStates ==
    /\ [](Machine = "failed" => OneError)
    /\ [][/\ ~SameIteration => BeginsFetching
          /\ (SameIteration /\ Machine' # Machine) => <<Machine, Machine'>> \in MachineSteps]_vars

\* C11, amended: as stated, except that an iteration over an empty start URL
\* starts in done, with no request made and no element yielded.
\* fetching->yielding is a successful decode, yielding->fetching a consumer
\* that continues with a non-empty resolved next URL, yielding->done an
\* empty next link or a consumer that stops, ->failed one error element.
C11_EmptyStartIsDone ==
    /\ [](Machine = "failed" => OneError)
    /\ [][/\ ~SameIteration =>
                \/ BeginsFetching
                \/ /\ Machine' = "done"
                   /\ baseURL = EmptyStr
                   /\ fetches' = 0
                   /\ out' = <<>>
          /\ (SameIteration /\ Machine' # Machine) =>
                \/ /\ <<Machine, Machine'>> = <<"fetching", "yielding">>
                   /\ decodes' = decodes + 1
                   /\ out' = RAppend(out, PageElem(cur'.data))
                \/ /\ <<Machine, Machine'>> = <<"yielding", "fetching">>
                   /\ ~stopped'
                   /\ cur.next # EmptyStr
                   /\ nextURL' # EmptyStr
                   /\ out' = out
                \/ /\ <<Machine, Machine'>> = <<"yielding", "done">>
                   /\ stopped' \/ cur.next = EmptyStr
                   /\ out' = out
                \/ /\ Machine \in {"fetching", "yielding"}
                   /\ Machine' = "failed"
                   /\ \E q \in 1..Len(out') : out' = RAppend(out, out'[q].e)]_vars

\* An iteration went through fetching and yielding, back to fetching, and
\* failed after at least two pages.
C11_Witness == Machine = "failed" /\ Len(out) >= 2 /\ page >= 1 /\ fetches >= 2

\* An iteration over an empty start URL is done without a request.
C11_WitnessEmptyStart ==
    iterNo = 1 /\ Machine = "done" /\ baseURL = EmptyStr /\ fetches = 0 /\ ctxErr = "nil"

----------------------------------------------------------------------------
(* Vocabulary of the properties of the token source *)

\* the Token() call of caller c returns in this step
Returns(c) == calls[c].pc # "idle" /\ calls'[c].pc = "idle"

\* an exchange request is sent in this step
Sends == posts' = posts + 1

\* a caller is past the lock of the wrapper and has not returned
Refreshing(c) == calls[c].pc \in {"refresh", "checked", "inflight"}

\* the token is one that can still be used at the time of the clock: it has
\* an access token and no Expiry, or 10 seconds or more to go until Expiry
Usable(t) ==
    /\ ~t.isNil
    /\ t.access # 0
    /\ \/ t.expiry = ZeroTime
       \/ ~Before(t.expiry, Add(Instant(tick), Seconds(10)))

\* url.ParseQuery of a form-encoded body: whether key is there, and its value
HasField(body, key) == \E i \in 1..Len(body) : body[i].key = key

FormValue(body, key) == body[CHOOSE i \in 1..Len(body) : body[i].key = key].value

----------------------------------------------------------------------------
(* C12 *)

\* C12: once the context of NewTokenSource is canceled no Token() call
\* sends an exchange request: a call made after the cancellation never
\* sends one and never gets past the check of the context; a call whose
\* check of the context comes after the cancellation returns the error of
\* the context and sends nothing; every request sent follows a check that
\* found the context live.
C12_NoExchangeOnceCanceled ==
    /\ [](\A c \in Callers :
            ~calls[c].live =>
                /\ calls[c].sent = 0
                /\ calls[c].pc \in {"idle", "lock", "refresh"}
                /\ calls[c].set =>
                      \/ calls[c].err = NoErr /\ calls[c].tok = cached
                      \/ calls[c].err = CtxError(ctxErr) /\ calls[c].tok = NoToken)
    /\ [][/\ \A c \in Callers :
               (calls[c].pc = "refresh" /\ ctxErr # "nil" /\ calls'[c] # calls[c]) =>
                   /\ ~Sends
                   /\ Returns(c)
                   /\ calls'[c].err = CtxError(ctxErr)
          /\ Sends => \E c \in Callers : calls[c].pc = "checked" /\ calls'[c].pc = "inflight"]_vars

\* After an exchange, and after the cancellation, two more calls were made
\* and one of them has returned the error of the context.
C12_Witness ==
    /\ ctxErr # "nil"
    /\ posts >= 1
    /\ \A c \in Callers : ~calls[c].live
    /\ \E c \in Callers : calls[c].set /\ calls[c].err = CtxError(ctxErr)

----------------------------------------------------------------------------
(* C13 *)

\* C13: with callers invoking Token() concurrently at most one exchange is
\* in flight and at most one caller is refreshing; a request is sent only
\* while no usable token is cached and none is in flight; a call that
\* returns a token returns the token the wrapper holds at that moment.
C13_OneExchangeInFlight ==
    /\ [](Cardinality(inflight) <= 1)
    /\ [](\A c, d \in Callers : (Refreshing(c) /\ Refreshing(d)) => c = d)
    /\ [][/\ Sends => (inflight = {} /\ ~Usable(cached))
          /\ \A c \in Callers :
               (Returns(c) /\ calls'[c].err = NoErr) =>
                   /\ calls'[c].tok = cached'
                   /\ ~cached'.isNil]_vars

\* One caller's exchange is in flight while another caller waits at the lock.
C13_Witness ==
    \E c, d \in Callers :
        /\ calls[c].pc = "inflight"
        /\ calls[d].pc = "lock"
        /\ Cardinality(inflight) = 1

\* Two callers hold the same token, got with one exchange.
C13_WitnessSameToken ==
    /\ posts = 1
    /\ \A c \in Callers : calls[c].set /\ calls[c].err = NoErr /\ calls[c].tok = cached

----------------------------------------------------------------------------
(* C14 *)

\* C14: an exchange is performed only when no usable token is cached: no
\* call returns a token before the first exchange; a call that passes the
\* lock while the cached token is usable returns that token, and no
\* request is sent; a failed exchange leaves the cache as it was.
C14_ExchangeOnlyWhenStale ==
    /\ [](\A c \in Callers : (calls[c].set /\ calls[c].err = NoErr) => posts >= 1)
    /\ [](posts = 0 => cached = NoToken)
    /\ [][/\ Sends => ~Usable(cached)
          /\ \A c \in Callers :
               (calls[c].pc = "lock" /\ calls'[c].pc # "lock" /\ Usable(cached)) =>
                   /\ Returns(c)
                   /\ calls'[c].tok = cached
                   /\ calls'[c].err = NoErr
                   /\ ~Sends
                   /\ cached' = cached
          /\ \A c \in Callers :
               (calls[c].pc = "inflight" /\ Returns(c) /\ calls'[c].err # NoErr) =>
                   cached' = cached]_vars

\* Three calls: the first exchanged, the later ones returned the cached
\* token, one of them after time had passed.
C14_Witness ==
    /\ tokenCalls = 3
    /\ posts = 1
    /\ tick >= 1
    /\ Usable(cached)
    /\ \A c \in Callers : calls[c].set /\ calls[c].tok = cached

\* A failed exchange after a successful one whose token has expired: the
\* expired token is still what the wrapper holds.
C14_WitnessFailure ==
    /\ posts = 2
    /\ ~cached.isNil
    /\ ~Usable(cached)
    /\ \E c \in Callers : calls[c].set /\ calls[c].err.msg = "token request"

----------------------------------------------------------------------------
(* C15 *)

\* C15: nothing is retried: one Token() call sends at most one exchange
\* request, and when the answer is a failure it returns at once with the
\* failure wrapped as "token request"; a page fetch that fails is followed
\* by no further request in its iteration, and every request made has had
\* exactly one answer.
C15_NothingRetried ==
    /\ [](\A c \in Callers : calls[c].sent <= 1)
    /\ [](posts <= tokenCalls)
    /\ [](pc # "inflight" => fetches = RLen(served))
    /\ [][/\ \A c \in Callers :
               (calls[c].pc = "inflight" /\ calls'[c] # calls[c]) =>
                   /\ Returns(c)
                   /\ ~Sends
                   /\ \/ calls'[c].err = NoErr
                      \/ calls'[c].err.msg = "token request" /\ calls'[c].tok = NoToken
          /\ (SameIteration /\ served # <<>> /\ ~RLast(served).success) =>
                   /\ fetches' = fetches
                   /\ served' = served
                   /\ pc' \notin {"loop", "inflight"}]_vars

\* A Token() call has returned a failed exchange after one request.
C15_Witness ==
    \E c \in Callers :
        /\ calls[c].set
        /\ calls[c].sent = 1
        /\ calls[c].err.msg = "token request"
        /\ posts = tokenCalls

\* FetchOrgDevicePartNumbers has returned after its second fetch failed.
C15_WitnessFetch ==
    /\ caller = "FetchOrgDevicePartNumbers"
    /\ pc = "returned"
    /\ fetches = 2
    /\ ~RLast(served).success

----------------------------------------------------------------------------
(* C16 *)

\* C16: every exchange request is a POST to the token URL with a
\* form-encoded body holding grant_type=client_credentials, the client_id
\* and the client_assertion given to NewTokenSource, client_assertion_type
\* equal to the JWT-bearer URN and the scope, and no client_secret.
C16_FormBody ==
    \A x \in inflight :
        /\ x.req.method = "POST"
        /\ x.req.url = TokenURL
        /\ x.req.contentType = "application/x-www-form-urlencoded"
        /\ HasField(x.req.body, "grant_type")
        /\ FormValue(x.req.body, "grant_type") = "client_credentials"
        /\ HasField(x.req.body, "client_id")
        /\ FormValue(x.req.body, "client_id") = tsCall.clientID
        /\ tsCall.clientID # ""
        /\ HasField(x.req.body, "client_assertion_type")
        /\ FormValue(x.req.body, "client_assertion_type") = ClientAssertionURI
        /\ HasField(x.req.body, "client_assertion")
        /\ FormValue(x.req.body, "client_assertion") = tsCall.clientAssertion
        /\ tsCall.clientAssertion.text # ""
        /\ HasField(x.req.body, "scope")
        /\ FormValue(x.req.body, "scope") # ""
        /\ tsCall.scope # "" => FormValue(x.req.body, "scope") = tsCall.scope
        /\ ~HasField(x.req.body, "client_secret")

\* A request of a source made with a scope of the caller's is in flight.
C16_Witness ==
    /\ inflight # {}
    /\ tsCall.scope = "school.api"

----------------------------------------------------------------------------
(* C17 *)

\* C17: called with a live context, NewTokenSource returns an error and no
\* source when clientID or the assertion is empty, and otherwise a source
\* for that clientID and assertion whose scope is business.api when the
\* scope given is empty and the scope given otherwise; the call itself
\* sends no request.
C17_Validation ==
    /\ []((tsCall.set /\ tsCall.ctx = "nil") =>
            IF tsCall.clientID = "" \/ tsCall.clientAssertion.text = ""
            THEN /\ tsCall.isNil
                 /\ tsCall.err.msg =
                        (IF tsCall.clientID = "" THEN "client ID is required"
                         ELSE "client assertion is required")
                 /\ stage = "refused"
                 /\ posts = 0
            ELSE /\ ~tsCall.isNil
                 /\ tsCall.err = NoErr
                 /\ tsCall.config.ClientID = tsCall.clientID
                 /\ tsCall.config.Scopes =
                        <<IF tsCall.scope = "" THEN "business.api" ELSE tsCall.scope>>)
    /\ [][tsCall' # tsCall => (posts = 0 /\ posts' = 0 /\ inflight' = {} /\ fetches' = 0)]_vars

\* A source made with the empty scope has sent a request.
C17_Witness ==
    /\ ~tsCall.isNil
    /\ tsCall.scope = ""
    /\ \E x \in inflight : FormValue(x.req.body, "scope") = "business.api"

\* NewTokenSource has refused an empty assertion.
C17_WitnessRefused ==
    /\ tsCall.set
    /\ tsCall.isNil
    /\ tsCall.clientID # ""
    /\ tsCall.err.msg = "client assertion is required"

----------------------------------------------------------------------------
(* C18 *)

\* C18: called with a canceled context, NewAssertion returns the error of
\* the context without reading the key file, NewTokenSource returns it
\* without reporting its arguments and without a source, and
\* FetchOrgDevicePartNumbers returns it without an iteration or a request.
C18_CanceledFirst ==
    /\ []((asCall.set /\ asCall.ctx # "nil") =>
            /\ asCall.err = CtxError(asCall.ctx)
            /\ asCall.val = EmptyAssertion
            /\ keyReads = 0
            /\ uuids = 0)
    /\ []((tsCall.set /\ tsCall.ctx # "nil") =>
            /\ tsCall.err = CtxError(tsCall.ctx)
            /\ tsCall.isNil
            /\ posts = 0)
    /\ [][(pc = "call" /\ pc' # "call" /\ ctxErr # "nil") =>
            /\ ret' = RetErr(CtxError(ctxErr))
            /\ pc' = "returned"
            /\ iterNo' = 0
            /\ fetches' = 0]_vars

\* NewAssertion was called with a canceled context and a key path that
\* does not exist.
C18_Witness ==
    /\ asCall.set
    /\ asCall.ctx = "context deadline exceeded"
    /\ ~asCall.file.exists
    /\ asCall.err.msg = "context deadline exceeded"

\* NewTokenSource was called with a canceled context and no clientID.
C18_WitnessSource ==
    /\ tsCall.set
    /\ tsCall.ctx # "nil"
    /\ tsCall.clientID = ""
    /\ tsCall.err.msg = tsCall.ctx

\* FetchOrgDevicePartNumbers was called with a canceled context.
C18_WitnessFetch ==
    /\ caller = "FetchOrgDevicePartNumbers"
    /\ pc = "returned"
    /\ iterNo = 0
    /\ ret.err.msg = "context canceled"

----------------------------------------------------------------------------
(* C19 *)

\* C19: in every assertion NewAssertion returns, exp - iat is 180 days
\* (15,552,000 seconds) and aud is the list of the one audience URL.
C19_Lifetime ==
    (asCall.set /\ asCall.err = NoErr) =>
        /\ asCall.val.claims.exp - asCall.val.claims.iat = 15552000
        /\ asCall.val.claims.aud = <<"https://account.apple.com/auth/oauth2/v2/token">>
        /\ Len(asCall.val.claims.aud) = 1
        /\ asCall.val.claims.iat <= Instant(tick).sec

\* An assertion was issued at a time that is not a whole second.
C19_Witness ==
    /\ asCall.set
    /\ asCall.err = NoErr
    /\ asCall.val.claims.iat = Instant(1).sec
    /\ Instant(1).nsec # 0

----------------------------------------------------------------------------
(* C20 *)

\* NewAssertion read the key file
KeyRead == asCall.set /\ asCall.ctx = "nil" /\ asCall.file.exists

\* the file holds an elliptic-curve private key on a curve other than P-256
OtherCurve(pem) == pem.block /\ pem.alg = "ecdsa" /\ pem.curve # "P-256"

\* the error parseECDSAPrivateKeyFromPEM returned, as NewAssertion wraps it
ParseErrorIs(msg) == asCall.err.msg = "parse private key" /\ asCall.err.cause = msg

\* C20 as stated: for every elliptic-curve private key on a curve other
\* than P-256 the parser returns no key and the curve-mismatch error.
C20_AlwaysCurveMismatch ==
    (KeyRead /\ OtherCurve(asCall.file.pem)) =>
        /\ asCall.val = EmptyAssertion
        /\ ParseErrorIs("unexpected elliptic curve")

\* C20, amended: for every elliptic-curve private key on a curve other than
\* P-256 the parser returns an error and no key; the error is the
\* curve-mismatch error, naming the curve, when the key is PKCS#8-encoded
\* under the label EC PRIVATE KEY or PRIVATE KEY on a curve crypto/x509
\* knows, and otherwise the error of what stops the parser first: the
\* missing block, the label or the DER payload.  The four errors differ.
C20_CurveMismatchOnceParsed ==
    /\ (KeyRead /\ OtherCurve(asCall.file.pem)) =>
           /\ asCall.val = EmptyAssertion
           /\ asCall.err.msg = "parse private key"
    /\ (KeyRead /\ ~asCall.file.pem.block) => ParseErrorIs("missing PEM block")
    /\ (KeyRead /\ asCall.file.pem.block) =>
           IF asCall.file.pem.type \notin {"EC PRIVATE KEY", "PRIVATE KEY"}
           THEN ParseErrorIs("unsupported PEM block type")
           ELSE IF \/ asCall.file.pem.der # "pkcs8"
                   \/ asCall.file.pem.alg = "ecdsa" /\ asCall.file.pem.curve \notin X509Curves
           THEN ParseErrorIs("parse private key")
           ELSE IF asCall.file.pem.alg # "ecdsa"
           THEN ParseErrorIs("unexpected private key type")
           ELSE IF asCall.file.pem.curve # "P-256"
           THEN ParseErrorIs("unexpected elliptic curve")
                /\ asCall.err.inner = asCall.file.pem.curve
           ELSE asCall.err = NoErr /\ asCall.val.key.curve = "P-256"

\* NewAssertion read a PKCS#8 key on P-384 and returned the curve mismatch.
C20_Witness ==
    /\ KeyRead
    /\ asCall.file.pem = PEM(TRUE, "EC PRIVATE KEY", "pkcs8", "ecdsa", "P-384")
    /\ ParseErrorIs("unexpected elliptic curve")

----------------------------------------------------------------------------
(* C21 *)

\* the two encodings of a P-256 key the test table lists as success
ListedAsSuccess(pem) ==
    /\ pem.block /\ pem.alg = "ecdsa" /\ pem.curve = "P-256"
    /\ \/ pem.type = "EC PRIVATE KEY" /\ pem.der = "sec1"
       \/ pem.type = "PRIVATE KEY" /\ pem.der = "pkcs8"

\* C21: for a P-256 private key, SEC 1 DER under the label EC PRIVATE KEY
\* and PKCS#8 DER under the label PRIVATE KEY, the parser returns no error
\* and a key on P-256 (seen in the assertion NewAssertion signs with it).
C21_BothEncodingsParse ==
    (KeyRead /\ ListedAsSuccess(asCall.file.pem)) =>
        /\ asCall.err = NoErr
        /\ asCall.val.key.curve = "P-256"

----------------------------------------------------------------------------
(* C25 *)

RECURSIVE DeliveredUpTo(_)
\* the pages among the elements of the first r runs of out
DeliveredUpTo(r) ==
    IF r = 0 THEN 0
    ELSE DeliveredUpTo(r - 1) + (IF IsErr(out[r].e) THEN 0 ELSE out[r].n)

\* pages handed to yield in this iteration
Delivered == DeliveredUpTo(Len(out))

\* client.Do calls that have not returned
InFlight == fetches - RLen(served)

\* C25: pagination is lazy and strictly sequential.  Before the consumer
\* starts to range over the sequence no request has been issued; at most
\* one request is in flight at any time; the requests issued are at most
\* the pages delivered plus one; and a request is issued only by the
\* iterator at the head of its loop, with no request in flight, and, when
\* it is not the first, only after every earlier answer was yielded as a
\* page and the consumer answered the last yield asking to continue.
C25_LazySequential ==
    /\ [](iterNo = 0 => fetches = 0 /\ served = <<>>)
    /\ [](InFlight \in {0, 1} /\ (InFlight = 1 <=> pc = "inflight"))
    /\ [](fetches <= Delivered + 1)
    /\ [][(fetches' # fetches /\ SameIteration)
            => /\ fetches' = fetches + 1
               /\ pc = "loop"
               /\ InFlight = 0
               /\ Delivered = fetches
               /\ ~stopped
               /\ fetches > 0 => ~IsErr(RLast(out))]_vars

\* The third request of an iteration is in flight, two pages delivered.
C25_Witness ==
    /\ pc = "inflight"
    /\ fetches = 3
    /\ Delivered = 2
    /\ InFlight = 1

----------------------------------------------------------------------------
(* C26 *)

\* an iteration is under way
Running == pc \in {"loop", "inflight", "yieldPage", "yieldErr"}

\* C26: every iteration ends.  Whatever the server answers, next links
\* that cycle or never become empty included, when every request returns
\* and the consumer returns from every yield, an iteration under way
\* leads to its end (clean, by early stop, or after one error), and no
\* iteration makes more than 1000 client.Do calls.
C26_Terminates ==
    /\ [](fetches <= maxPages)
    /\ Running ~> Ended

\* An iteration over the server whose pages link to themselves has ended,
\* after 1000 fetches, with the page-limit error.
C26_Witness ==
    /\ server = "loop"
    /\ Ended
    /\ fetches = maxPages
    /\ RLast(out).err = PageLimitError

----------------------------------------------------------------------------
(* C27 *)

\* the answer is a 2xx page that decodes and whose next link url.Parse rejects
MalformedLink(d) == d.success /\ d.body.json /\ ~d.body.next.wf

\* the error resolveNextURL returns for such a link
NextLinkError == ErrElem(Errorf("parse next links url", "parse"))

\* C27: a page whose next link is malformed is still delivered.  When
\* client.Do returns such a page its items are yielded, with no error;
\* when the consumer then continues, the parse error of the link is
\* yielded, without a fetch, and is the last element; when the consumer
\* stops at that page nothing more is yielded and no error is delivered
\* in that iteration.
C27_MalformedLinkAfterPage ==
    /\ [][(pc = "inflight" /\ pc' # "inflight" /\ MalformedLink(RLast(served')))
            => /\ pc' = "yieldPage"
               /\ out' = RAppend(out, PageElem(decodeOrgDevices(RLast(served').body).data))
               /\ Delivered' = Delivered + 1]_vars
    /\ [][(pc = "yieldPage" /\ pc' # "yieldPage" /\ MalformedLink(RLast(served)))
            => IF stopped'
               THEN pc' = "done" /\ out' = out /\ fetches' = fetches
               ELSE /\ pc' = "yieldErr"
                    /\ out' = RAppend(out, NextLinkError)
                    /\ fetches' = fetches]_vars
    /\ [][((stopped \/ ErrDelivered) /\ SameIteration)
            => (out' = out /\ fetches' = fetches)]_vars
    /\ [](stopped => ~ErrDelivered)

\* The second page of an iteration had a malformed next link: its items
\* were yielded, the consumer went on and got the parse error.
C27_Witness ==
    /\ pc = "done"
    /\ ~stopped
    /\ fetches = 2
    /\ MalformedLink(RLast(served))
    /\ RLen(out) = 3
    /\ RLast(out) = NextLinkError
    /\ out[Len(out) - 1].e = PageElem(<<"PART-002">>)

\* The consumer stopped at the page with the malformed next link.
C27_WitnessStop ==
    /\ pc = "done"
    /\ stopped
    /\ MalformedLink(RLast(served))
    /\ RLast(out) = PageElem(<<"PART-002">>)

----------------------------------------------------------------------------
(* C28 *)

\* the answers of the iteration are a complete chain of exactly 1000 pages
ThousandPageChain == ChainComplete /\ RLen(served) = maxPages

\* C28: the ceiling includes the 1000th page.  A chain of exactly 1000
\* decoded pages whose last next link is empty is delivered in full, with
\* no error element and in particular no page-limit error, and the
\* iteration ends without a further fetch; the page-limit error is
\* delivered only after 1000 pages, when the 1000th answer carried a
\* non-empty next link and the consumer did not stop.
C28_CeilingInclusive ==
    /\ ThousandPageChain
        => /\ pc \in {"yieldPage", "loop", "done", "returned"}
           /\ pc = "loop" => nextURL = EmptyStr
           /\ fetches = maxPages
           /\ Delivered = maxPages
           /\ out = ItemsUpTo(Len(served))
           /\ ~ErrDelivered
           /\ pc = "returned" => ret = RetVal(PartsUpTo(Len(served)))
    /\ (ErrDelivered /\ RLast(out).err = PageLimitError)
        => /\ Delivered = maxPages
           /\ fetches = maxPages
           /\ RLen(served) = maxPages
           /\ \A r \in 1..Len(served) : Continuing(served[r].e)
           /\ ~stopped

\* A range statement consumed a chain of exactly 1000 pages to its end.
C28_Witness ==
    /\ ThousandPageChain
    /\ caller = "range"
    /\ pc = "done"
    /\ ~stopped
    /\ Delivered = maxPages
    /\ out # <<>>
    /\ ~IsErr(RLast(out))

----------------------------------------------------------------------------
(* C30 *)

\* FetchOrgDevicePartNumbers has returned
FetchReturned == caller = "FetchOrgDevicePartNumbers" /\ ret.set

\* C30: FetchOrgDevicePartNumbers is all-or-nothing.  When the page
\* sequence delivered an error, at whatever page, it returns a nil slice
\* with that very error, whatever part numbers it had gathered; it
\* returns a non-nil slice only without an error, when the answers were
\* a complete chain ending in an empty next link, and the slice then
\* holds the part numbers of all pages.
C30_AllOrNothing ==
    FetchReturned =>
        /\ ErrDelivered => ret = RetErr(RLast(out).err)
        /\ IsErr(ret) => ret.isNil /\ ret.val = <<>>
        /\ ~ret.isNil => /\ ret.err = NoErr
                         /\ ChainComplete
                         /\ ~ErrDelivered
                         /\ ret.val = PartsUpTo(Len(served))

\* The third fetch failed after two pages of part numbers: nil and the error.
C30_Witness ==
    /\ FetchReturned
    /\ fetches = 3
    /\ RLen(partNumbers) >= 2
    /\ ret = RetErr(RLast(out).err)
    /\ IsErr(ret)

----------------------------------------------------------------------------
(* Vocabulary of the properties of the typed client *)

\* a typed operation has returned
OpReturned == op.pc = "returned"

\* ... after the server answered and the answer was read in full
Answered == OpReturned /\ op.resp.kind = "http"

\* the error returned is an *APIError
IsAPIError(err) == err.msg = "abm api error"

\* the sorted pairs hold the key
HasKey(pairs, key) == \E i \in 1..Len(pairs) : pairs[i].key = key

\* the value of the key in the sorted pairs
ValueOf(pairs, key) == (CHOOSE p \in {pairs[i] : i \in 1..Len(pairs)} : p.key = key).value

----------------------------------------------------------------------------
(* C22 *)

\* C22: whatever typed operation was called, when the server answered
\* with a status outside 200..299 the operation returns an *APIError that
\* carries that status, the body as received but for the white space
\* around it, and the errors the body lists when it is an error
\* document; a body that does not parse, and an empty body, give an
\* *APIError with an empty error list; the body is not decoded into the
\* response value of the operation.
C22_APIError ==
    (Answered /\ op.resp.status \notin 200..299) =>
        /\ IsAPIError(op.err)
        /\ op.err.status = op.resp.status
        /\ op.err.body = Payload(FALSE, op.resp.body.text, op.resp.body.errors)
        /\ op.err.errors = (IF op.resp.body.text = "errors" THEN op.resp.body.errors ELSE <<>>)
        /\ op.resp.body.text \in {"", "cut", "html"} => op.err.errors = <<>>
        /\ ~op.decoded

\* GetOrgDevice got 404 with an error document of two errors, surrounded
\* by white space.
C22_Witness ==
    /\ Answered
    /\ op.name = "GetOrgDevice"
    /\ op.resp.status = 404
    /\ op.resp.body = Payload(TRUE, "errors", <<NotFound, ErrorItem("", "")>>)
    /\ IsAPIError(op.err)
    /\ Len(op.err.errors) = 2
    /\ op.err.body # op.resp.body

\* CreateOrgDeviceActivity got 500 with a page of HTML.
C22_WitnessUnparsed ==
    /\ Answered
    /\ op.name = "CreateOrgDeviceActivity"
    /\ op.resp.status = 500
    /\ op.resp.body.text = "html"
    /\ IsAPIError(op.err)
    /\ op.err.errors = <<>>

----------------------------------------------------------------------------
(* C23 *)

\* a base URL that is not empty and is unparsable, not absolute or without host
BadBaseURL(raw) == raw # EmptyStr /\ (~raw.wf \/ raw.scheme = "" \/ raw.host = "")

\* no request has left the program
NothingSent == wire = <<>> /\ fetches = 0 /\ served = <<>>

\* the operation takes a resource ID / a limit with these options
TakesID == Operations(op.name).idName # ""

TakesLimit == Operations(op.name).hasLimit /\ ~op.options.isNil

\* C23: invalid configuration and parameters are refused before a request
\* is sent.  NewClientWithBaseURL fails exactly for a nil token source or
\* a base URL that is unparsable, not absolute or without host, and an
\* empty base URL gives the default one; an operation called with an
\* empty or all-blank resource ID, or with a limit below 0 or above 1000,
\* returns an error without building a request; every other call under a
\* live context builds its request, whose query holds the limit exactly
\* when the limit is not 0.
C23_RejectedBeforeRequest ==
    /\ client.set =>
        /\ client.ok <=> ~(client.args.tokenSource = "nil" \/ BadBaseURL(client.args.rawBaseURL))
        /\ ~client.ok => (client.err # NoErr /\ NothingSent /\ op = NoOp /\ ~ret.set)
        /\ (client.ok /\ client.args.rawBaseURL = EmptyStr)
              => (client.baseURL.host = "api-business.apple.com" /\ client.baseURL.scheme = "https")
    /\ op.pc # "idle" =>
        /\ (TakesID /\ op.id.text = "")
              => /\ OpReturned
                 /\ op.err = Errorf("is required", Operations(op.name).idName)
                 /\ op.req = NoRequest
                 /\ NothingSent
        /\ (TakesLimit /\ (op.options.limit < 0 \/ op.options.limit > 1000))
              => /\ OpReturned
                 /\ op.err.msg \in {"is required", "limit must be >= 0", "limit must be <= 1000"}
                 /\ op.req = NoRequest
                 /\ NothingSent
        /\ (/\ TakesID => op.id.text # ""
            /\ TakesLimit => op.options.limit \in 0..1000
            /\ op.ctx = "nil")
              => /\ op.req # NoRequest
                 /\ HasKey(op.req.rawQuery, "limit") <=> (TakesLimit /\ op.options.limit # 0)
                 /\ HasKey(op.req.rawQuery, "limit")
                       => ValueOf(op.req.rawQuery, "limit") = ToString(op.options.limit)

\* GetMDMServers was called with limit 1001 and returned the error.
C23_Witness ==
    /\ OpReturned
    /\ op.name = "GetMDMServers"
    /\ op.options.limit = 1001
    /\ op.err = Errorf("limit must be <= 1000", "1001")
    /\ NothingSent

\* GetMDMServerDeviceLinkages was called with an ID of blanks.
C23_WitnessBlankID ==
    /\ OpReturned
    /\ op.name = "GetMDMServerDeviceLinkages"
    /\ op.id = ID(TRUE, "", TRUE)
    /\ op.err.msg = "is required"

\* GetOrgDevices was sent with limit 0 and fields: no limit in the query.
C23_WitnessNoLimit ==
    /\ Answered
    /\ op.name = "GetOrgDevices"
    /\ ~op.options.isNil
    /\ op.options.limit = 0
    /\ Len(op.req.rawQuery) = 1
    /\ ~HasKey(op.req.rawQuery, "limit")

\* The constructor refused a base URL without host.
C23_WitnessBaseURL ==
    /\ client.set
    /\ ~client.ok
    /\ client.args.tokenSource = "static"
    /\ client.err = Errorf("base URL host is required", "")

----------------------------------------------------------------------------
(* C24 *)

RECURSIVE NetworkAnswersUpTo(_)
\* the answers among the first r runs of served that the network gave:
\* all but the failures of the token source
NetworkAnswersUpTo(r) ==
    IF r = 0 THEN 0
    ELSE NetworkAnswersUpTo(r - 1)
         + (IF served[r].e.kind = "doErr" /\ served[r].e.cause = "token request"
            THEN 0 ELSE served[r].n)

\* the request carries Authorization: Bearer <the token its source returned>
Authorized(sent) ==
    /\ ~sent.token.isNil
    /\ sent.token.access # ""
    /\ \E t \in TokenResults(client.source) : t.err = "" /\ t.token = sent.token
    /\ sent.auth = [scheme |-> "Bearer", credentials |-> sent.token.access]

\* C24: every request that leaves through a Client carries an
\* Authorization header of scheme Bearer with the access token the
\* client's token source returned for it.  This holds for the request of
\* each typed operation and for every page fetch of
\* FetchOrgDevicePartNumbers; each answer from the network belongs to a
\* request sent that way, and when the token source fails no request is
\* sent and the call fails.
C24_BearerOnEveryRequest ==
    /\ \A r \in 1..Len(wire) : Authorized(wire[r].e)
    /\ (OpReturned /\ op.resp.kind \in {"http", "readErr", "doErr"})
          => (RLen(wire) = 1 /\ RLast(wire).method = op.req.method)
    /\ (OpReturned /\ op.resp.kind \in {"none", "tokenErr"})
          => (wire = <<>> /\ op.err # NoErr)
    /\ op.pc \in {"idle", "inflight"} => RLen(wire) = NetworkAnswersUpTo(Len(served))
    /\ caller = "FetchOrgDevicePartNumbers"
          => /\ RLen(wire) = NetworkAnswersUpTo(Len(served))
             /\ \A r \in 1..Len(wire) : wire[r].e.method = "GET"
             /\ RLen(wire) < RLen(served) => (ret.set => ret.isNil)

\* FetchOrgDevicePartNumbers fetched three pages; the token source
\* handed out another token in between.
C24_Witness ==
    /\ caller = "FetchOrgDevicePartNumbers"
    /\ pc = "returned"
    /\ ~ret.isNil
    /\ RLen(wire) = 3
    /\ Len(wire) >= 2
    /\ wire[1].e.token # RLast(wire).token

\* CreateOrgDeviceActivity was sent with the token of type "bearer".
C24_WitnessTyped ==
    /\ Answered
    /\ op.name = "CreateOrgDeviceActivity"
    /\ RLast(wire) = [method |-> "POST",
                       auth |-> [scheme |-> "Bearer", credentials |-> "next-token"],
                       token |-> AccessToken("next-token", "bearer")]

----------------------------------------------------------------------------
(* C29 *)

\* the one status the operation takes for a success
ExpectedStatus == IF op.name = "CreateOrgDeviceActivity" THEN 201 ELSE 200

\* C29: doJSONRequest takes only the status the operation expects, 200
\* for the GET operations and 201 for CreateOrgDeviceActivity: an answer
\* with any other status, 200 on the create and 204 on a GET included, is
\* returned as an *APIError and not decoded, and an answer with the
\* expected status never is.  PageIterator takes every status in
\* 200..299: the page fetches of FetchOrgDevicePartNumbers end with the
\* "request failed" error exactly when the last answer had a status
\* outside 200..299.
C29_ExpectedStatusOnly ==
    /\ Answered =>
        /\ IsAPIError(op.err) <=> op.resp.status # ExpectedStatus
        /\ op.resp.status # ExpectedStatus => (op.err.status = op.resp.status /\ ~op.decoded)
        /\ Operations(op.name).method = (IF op.name = "CreateOrgDeviceActivity" THEN "POST" ELSE "GET")
    /\ (caller = "FetchOrgDevicePartNumbers" /\ served # <<>>) =>
        ((ErrDelivered /\ RLast(out).err.msg = "request failed")
           <=> (RLast(served).kind = "http" /\ ~RLast(served).success))

\* CreateOrgDeviceActivity was answered 200 with a JSON object.
C29_Witness ==
    /\ Answered
    /\ op.name = "CreateOrgDeviceActivity"
    /\ op.resp.status = 200
    /\ op.resp.body.text = "object"
    /\ IsAPIError(op.err)
    /\ ~op.decoded

\* GetOrgDevices was answered 204.
C29_WitnessGet ==
    /\ Answered
    /\ op.name = "GetOrgDevices"
    /\ op.resp.status = 204
    /\ IsAPIError(op.err)

\* CreateOrgDeviceActivity was answered 201 and the body decoded.
C29_WitnessCreated ==
    /\ Answered
    /\ op.name = "CreateOrgDeviceActivity"
    /\ op.resp.status = 201
    /\ op.err = NoErr
    /\ op.decoded

====
